---- MODULE Spec2Model ----
(***************************************************************************)
(* A model of rapax: the ManagedContext state cache (src/src/ctx.rs), the  *)
(* resource handles (src/src/buffer.rs, src/src/shader.rs,                 *)
(* src/src/texture.rs, src/src/va.rs) and the render pipeline descriptor   *)
(* (src/src/pipeline.rs), together with the part of the OpenGL device      *)
(* state the library drives through glow.                                  *)
(***************************************************************************)
EXTENDS Integers, Sequences, FiniteSets, TLC

VARIABLES
    current_state,       \* ManagedContext.current_state
    last_flushed_state,  \* ManagedContext.last_flushed_state
    state_stack,         \* ManagedContext.state_stack
    gl,                  \* the device behind ManagedContext.gl
    buffers,             \* the live BufferHandle values
    programs,            \* the live ShaderProgram values
    pipelines,           \* the live RenderPipeline values
    arc_strong,          \* strong count of each Arc<ShaderProgram>
    textures,            \* the live TextureHandle and Texture2D values
    vaos,                \* the live VertexArrayObject values
    overflow_checks,     \* the build profile: TRUE debug, FALSE release
    op,                  \* history: the operation performed last
    emitted,             \* history: the device calls that operation issued
    runCalls,            \* history: device calls issued by the current run of
                         \*          identical consecutive operations
    focus,               \* the shadow fields the behaviour exercises
    deleted,             \* history: delete calls received by each native object
    uploaded,            \* history: length of the data of each handle's last upload
    scope,               \* the closures of the context that are running
    trail,               \* history: the operations of the running pipeline scope
                         \*          with their program binds and draw calls
    saved                \* history: the device as it was at the last save, while
                         \*          the operations since then are followed

vars == <<current_state, last_flushed_state, state_stack, gl, buffers, programs,
          pipelines, arc_strong, textures, vaos, overflow_checks, op, emitted, runCalls, focus,
          scope, trail, saved,
          deleted, uploaded>>

ctxVars == <<current_state, last_flushed_state, state_stack>>
resVars == <<buffers, programs, pipelines, arc_strong, textures, vaos>>

----------------------------------------------------------------------------
(* Bounds of the model. *)

\* texture units that may be invalidated at the same time
MaxInvalid == 1
\* depth of the state stack
MaxStack == 1
\* native object names passed to the context on its own
MaxNative == 1
\* native object names the device hands out, per kind
MaxNames == 2
\* BufferHandle values alive at once
MaxHandles == 2
\* ShaderProgram values alive at once
MaxPrograms == 2
\* RenderPipeline values alive at once
MaxPipelines == 3
\* TextureHandle and Texture2D values alive at once
MaxTextures == 1
\* VertexArrayObject values alive at once
MaxVaos == 1
\* largest width and height of a texture
MaxDim == 2
\* longest data slice passed to a buffer
MaxLen == 3
\* largest offset magnitude passed to update
MaxOffset == 3
\* vertex attributes of one pipeline
MaxAttribs == 2
\* closures of the context running inside one another
MaxNest == 2
\* operations of one pipeline scope that the history keeps
MaxTrail == 3

----------------------------------------------------------------------------
(* glow constants the library passes to the device. *)

ARRAY_BUFFER == 34962
ELEMENT_ARRAY_BUFFER == 34963
BLEND == 3042
DEPTH_TEST == 2929
TEXTURE0 == 33984
TEXTURE_2D == 3553
VERTEX_SHADER == 35633
FRAGMENT_SHADER == 35632
SRC_ALPHA == 770
ONE_MINUS_SRC_ALPHA == 771
UNSIGNED_SHORT == 5123
COLOR_BUFFER_BIT == 16384
\* DrawMode::Triangles and ::Lines, #[repr(u32)]
Triangles == 4
Lines == 1
SCISSOR_TEST == 3089
STENCIL_TEST == 2960
FRONT == 1028
BACK == 1029
ALWAYS == 519
KEEP == 7680

FLOAT == 5126

\* [MaybeKnown<Option<NativeTexture>>; 16]
TextureUnits == 16

\* Option::None of a native object (the device's name 0)
None == 0
NativeIds == 1..MaxNative

\* the names the device hands out for the objects it creates
DeviceNames == 1..MaxNames

\* enum MaybeKnown<T>, compared structurally (derive PartialEq)
Known(v) == <<"Known", v>>
Unknown == <<"Unknown">>

IsKnown(m) == m[1] = "Known"

\* MaybeKnown::assume_known: defined only on Known
assume_known(m) == m[2]

----------------------------------------------------------------------------
(* The device.  Every call the library makes on glow::Context is a record  *)
(* [f |-> name, a |-> arguments]; DevStep is the effect of one call on the *)
(* device state, Exec the effect of a handler's calls in order.            *)

Call(f, a) == [f |-> f, a |-> a]

IsCall(c, f, a) == c.f = f /\ c.a = a

\* vertex array names: 0 is no vertex array, the last one is the vertex array
\* every pipeline application shares
SharedVertexArray == MaxNames + 1

VertexArrayNames == 0..SharedVertexArray

\* the state of a fresh OpenGL context: nothing bound, blending and depth
\* test off, depth and colour writes on, the viewport the window's size
DeviceInit ==
    [ array_buffer   |-> None,
      element_buffer |-> None,
      active_texture |-> 0,
      textures       |-> [u \in 0..(TextureUnits - 1) |-> None],
      blend          |-> FALSE,
      blend_func     |-> <<1, 0>>,
      clear_color    |-> <<0, 0, 0, 0>>,
      depth_test     |-> FALSE,
      depth_mask     |-> TRUE,
      color_mask     |-> <<TRUE, TRUE, TRUE, TRUE>>,
      program        |-> None,
      viewport       |-> <<0, 0, 2, 2>>,
      buffers        |-> {},
      programs       |-> {},
      shaders        |-> {},
      attached       |-> {},
      texture_objects |-> {},
      tex_size       |-> [n \in DeviceNames |-> <<0, 0>>],
      vertex_arrays  |-> {},
      vertex_array   |-> None,
      attribs        |-> [v \in VertexArrayNames |-> {}],
      scissor_test   |-> FALSE,
      stencil_test   |-> FALSE ]

\* glDeleteBuffers: the name dies and every binding of it reverts to 0
DevDeleteBuffer(d, b) ==
    [d EXCEPT !.buffers = @ \ {b},
              !.array_buffer = IF @ = b THEN None ELSE @,
              !.element_buffer = IF @ = b THEN None ELSE @]

DevStep(d, c) ==
    CASE c.f = "bind_buffer" ->
           IF c.a[1] = ARRAY_BUFFER
           THEN [d EXCEPT !.array_buffer = c.a[2]]
           ELSE [d EXCEPT !.element_buffer = c.a[2]]
      [] c.f = "active_texture" -> [d EXCEPT !.active_texture = c.a[1] - TEXTURE0]
      [] c.f = "bind_texture" -> [d EXCEPT !.textures[d.active_texture] = c.a[2]]
      [] c.f \in {"enable", "disable"} ->
           LET on == c.f = "enable"
           IN  IF c.a[1] = BLEND THEN [d EXCEPT !.blend = on]
               ELSE IF c.a[1] = DEPTH_TEST THEN [d EXCEPT !.depth_test = on]
               ELSE IF c.a[1] = SCISSOR_TEST THEN [d EXCEPT !.scissor_test = on]
               ELSE IF c.a[1] = STENCIL_TEST THEN [d EXCEPT !.stencil_test = on]
               ELSE d
      [] c.f = "blend_func" -> [d EXCEPT !.blend_func = c.a]
      [] c.f = "clear_color" -> [d EXCEPT !.clear_color = c.a]
      [] c.f = "color_mask" -> [d EXCEPT !.color_mask = c.a]
      [] c.f = "depth_mask" -> [d EXCEPT !.depth_mask = c.a[1]]
      [] c.f = "use_program" -> [d EXCEPT !.program = c.a[1]]
      [] c.f = "viewport" -> [d EXCEPT !.viewport = c.a]
      [] c.f = "create_buffer" -> [d EXCEPT !.buffers = @ \cup {c.a[1]}]
      [] c.f = "delete_buffer" -> DevDeleteBuffer(d, c.a[1])
      [] c.f = "create_program" -> [d EXCEPT !.programs = @ \cup {c.a[1]}]
      \* glDeleteProgram: a program in use stays installed until replaced
      [] c.f = "delete_program" -> [d EXCEPT !.programs = @ \ {c.a[1]}]
      [] c.f = "create_shader" -> [d EXCEPT !.shaders = @ \cup {c.a[2]}]
      [] c.f = "delete_shader" -> [d EXCEPT !.shaders = @ \ {c.a[1]}]
      [] c.f = "attach_shader" -> [d EXCEPT !.attached = @ \cup {c.a}]
      [] c.f = "detach_shader" -> [d EXCEPT !.attached = @ \ {c.a}]
      [] c.f = "create_texture" -> [d EXCEPT !.texture_objects = @ \cup {c.a[1]}]
      \* glDeleteTextures: the name dies and every binding of it reverts to 0
      [] c.f = "delete_texture" ->
           [d EXCEPT !.texture_objects = @ \ {c.a[1]},
                     !.textures = [u \in DOMAIN @ |-> IF @[u] = c.a[1] THEN None ELSE @[u]]]
      \* glTexImage2D: the texture bound at the active unit gets new storage
      [] c.f = "tex_image_2d" ->
           IF d.textures[d.active_texture] = None THEN d
           ELSE [d EXCEPT !.tex_size[d.textures[d.active_texture]] = c.a]
      [] c.f = "create_vertex_array" -> [d EXCEPT !.vertex_arrays = @ \cup {c.a[1]}]
      [] c.f = "delete_vertex_array" ->
           [d EXCEPT !.vertex_arrays = @ \ {c.a[1]},
                     !.vertex_array = IF @ = c.a[1] THEN None ELSE @,
                     !.attribs[c.a[1]] = {}]
      \* the enabled attribute arrays are state of the bound vertex array
      [] c.f = "enable_vertex_attrib_array" ->
           [d EXCEPT !.attribs[d.vertex_array] = @ \cup {c.a[1]}]
      [] c.f = "disable_vertex_attrib_array" ->
           [d EXCEPT !.attribs[d.vertex_array] = @ \ {c.a[1]}]
      [] c.f = "bind_vertex_array" -> [d EXCEPT !.vertex_array = c.a[1]]
      [] OTHER -> d

RECURSIVE Exec(_, _)
Exec(d, calls) ==
    IF calls = <<>> THEN d ELSE Exec(DevStep(d, Head(calls)), Tail(calls))

\* delete calls per native object, counted from the object's creation
RECURSIVE CountDeletes(_, _)
CountDeletes(n, calls) ==
    IF calls = <<>> THEN n
    ELSE LET c == Head(calls)
             kind == IF c.f \in {"create_buffer", "delete_buffer"} THEN "buffer"
                     ELSE IF c.f \in {"create_program", "delete_program"} THEN "program"
                     ELSE IF c.f \in {"create_texture", "delete_texture"} THEN "texture"
                     ELSE IF c.f \in {"create_shader", "delete_shader"} THEN "shader"
                     ELSE IF c.f \in {"create_vertex_array", "delete_vertex_array"}
                     THEN "vertex_array"
                     ELSE "none"
             m == IF c.f \in {"create_buffer", "create_program", "create_texture",
                              "create_vertex_array"}
                  THEN [n EXCEPT ![kind][c.a[1]] = 0]
                  ELSE IF c.f = "create_shader"
                  THEN [n EXCEPT ![kind][c.a[2]] = 0]
                  ELSE IF c.f \in {"delete_buffer", "delete_program", "delete_texture",
                                   "delete_shader", "delete_vertex_array"}
                  THEN [n EXCEPT ![kind][c.a[1]] = IF @ >= 2 THEN 2 ELSE @ + 1]
                  ELSE n
         IN  CountDeletes(m, Tail(calls))

SameOp(a, b) == a.name = b.name /\ a.args = b.args

\* the data lengths handed to the device for each handle by its creation or
\* its last realloc; a clone starts with those of its original
Uploaded(u, o) ==
    IF o.name \in {"array_buffer", "index_buffer"} /\ o.args[3] = "Ok"
    THEN [u EXCEPT ![o.args[1]] = o.args[2]]
    ELSE IF o.name = "realloc" THEN [u EXCEPT ![o.args[1]] = o.args[2]]
    ELSE IF o.name = "clone_buffer" THEN [u EXCEPT ![o.args[2]] = u[o.args[1]]]
    ELSE IF o.name = "drop_buffer" THEN [u EXCEPT ![o.args[1]] = 0]
    ELSE u

\* The closures that are running, outermost first: a scope opens when its
\* operation has issued its entry calls and closes when the closure returns.
ScopeAfter(s, o) ==
    IF o.name \in {"with_pipeline", "bind_vertex_array_with"}
    THEN Append(s, <<o.name, o.args[1]>>)
    ELSE IF o.name \in {"with_pipeline_return", "bind_vertex_array_with_return"}
    THEN SubSeq(s, 1, Len(s) - 1)
    ELSE s

IsBindOrDraw(c) == c.f \in {"use_program", "draw_arrays", "draw_elements"}

\* the operations since the running pipeline scope was entered, each with the
\* program binds and draw calls it issued; one operation beyond MaxTrail is
\* kept to tell that there were more.  Kept in the behaviours that follow a
\* scope only.
TrailAfter(t, o, calls) ==
    LET entry == [op |-> o, calls |-> SelectSeq(calls, IsBindOrDraw)]
    IN  IF "scope" \notin focus THEN <<>>
        ELSE IF o.name = "with_pipeline" THEN <<entry>>
        ELSE IF o.name = "with_pipeline_return" \/ t = <<>> THEN <<>>
        ELSE IF Len(t) > MaxTrail THEN t
        ELSE Append(t, entry)

Mutators ==
    {"set_blend", "set_blend_func", "set_depth_write", "set_color_write",
     "use_program", "unuse_program", "bind_array_buffer", "unbind_array_buffer",
     "bind_index_buffer", "unbind_index_buffer", "bind_any_buffer",
     "set_clear_color", "set_viewport"}

\* the operations of the context that change or forget cached state
Invalidations == {"invalidate_texture", "invalidate_index_buffer", "invalidate_array_buffer"}

\* the operation returned instead of panicking
Returned(o) ==
    CASE o.name \in {"restore", "flush_state"} -> o.args = <<>>
      [] o.name = "invalidate_texture" -> Len(o.args) = 1
      [] OTHER -> TRUE

\* the shadow st says of every field what the device d holds
ShadowSound(st, d) ==
    /\ st.bound_array_buffer = Known(d.array_buffer)
    /\ st.bound_element_buffer = Known(d.element_buffer)
    /\ \A u \in DOMAIN st.bound_textures : st.bound_textures[u] = Known(d.textures[u])
    /\ st.blend_enabled = d.blend
    /\ st.blend_func = d.blend_func
    /\ st.clear_color = d.clear_color
    /\ st.depth_enabled = d.depth_test
    /\ st.depth_write = d.depth_mask
    /\ st.color_write = d.color_mask
    /\ st.program = Known(d.program)
    /\ st.viewport = d.viewport

\* Follows save(); S; restore(); flush_state() with S made of mutators,
\* invalidations and flushes: <<"saved", d>> after a save made with the shadow
\* sound and flushed and the device in state d, and while S runs;
\* <<"restored", d>> after the restore that ends S; <<"flushed", d>> after
\* the flush_state that follows it at once.  Kept in the behaviours that
\* follow a save only.
SavedAfter(h, o) ==
    IF "saved" \notin focus THEN <<"none">>
    ELSE IF o.name = "save"
    THEN IF ShadowSound(last_flushed_state, gl) /\ current_state = last_flushed_state
         THEN <<"saved", gl>> ELSE <<"none">>
    ELSE IF ~Returned(o) THEN <<"none">>
    ELSE IF h[1] = "saved" /\ o.name \in Mutators \cup Invalidations \cup {"flush_state"}
    THEN h
    ELSE IF h[1] = "saved" /\ o.name = "restore" THEN <<"restored", h[2]>>
    ELSE IF h[1] = "restored" /\ o.name = "flush_state" THEN <<"flushed", h[2]>>
    ELSE <<"none">>

\* What every operation records: itself, its device calls and their effect.
Record(o, calls) ==
    /\ op' = o
    /\ scope' = ScopeAfter(scope, o)
    /\ trail' = TrailAfter(trail, o, calls)
    /\ saved' = SavedAfter(saved, o)
    /\ emitted' = calls
    /\ gl' = Exec(gl, calls)
    /\ deleted' = CountDeletes(deleted, calls)
    /\ uploaded' = Uploaded(uploaded, o)
    /\ runCalls' = LET n == (IF SameOp(op, o) THEN runCalls ELSE 0) + Len(calls)
                   IN  IF n >= 2 THEN 2 ELSE n

Op(name, args) == [name |-> name, args |-> args]

----------------------------------------------------------------------------
(* ManagedContext: the shadow of the device state (src/src/ctx.rs).        *)

\* #[derive(Default)] of ContextState: every binding Known(None), every
\* flag false, every number zero
ContextStateDefault ==
    [ bound_array_buffer   |-> Known(None),
      bound_element_buffer |-> Known(None),
      bound_textures       |-> [u \in 0..(TextureUnits - 1) |-> Known(None)],
      blend_enabled        |-> FALSE,
      blend_func           |-> <<0, 0>>,
      clear_color          |-> <<0, 0, 0, 0>>,
      depth_enabled        |-> FALSE,
      depth_write          |-> FALSE,
      color_write          |-> <<FALSE, FALSE, FALSE, FALSE>>,
      program              |-> Known(None),
      viewport             |-> <<0, 0, 0, 0>> ]

\* ContextState::new; ManagedContext::new does not call it
ContextStateNew ==
    [ContextStateDefault EXCEPT !.depth_write = TRUE,
                                !.color_write = <<TRUE, TRUE, TRUE, TRUE>>]

\* u32, kept at 30 bits so that it stays within TLC's integers
U32Modulus == 2 ^ 30

\* `count as i32` of a u32: the same bits, read as a signed number
AsI32(n) == IF n >= U32Modulus \div 2 THEN n - U32Modulus ELSE n

Fields == DOMAIN ContextStateDefault

\* The values the operations are called with.  Colour components are finite
\* f32 values, written as integers.
BlendFuncs == {<<SRC_ALPHA, ONE_MINUS_SRC_ALPHA>>, <<ONE_MINUS_SRC_ALPHA, SRC_ALPHA>>}
Colors == {<<0, 0, 0, 0>>, <<1, 1, 1, 1>>}
ColorMasks == {<<FALSE, FALSE, FALSE, FALSE>>, <<TRUE, TRUE, TRUE, TRUE>>,
               <<TRUE, TRUE, TRUE, FALSE>>}
Viewports == {<<0, 0, 0, 0>>, <<0, 0, 2, 2>>}
DrawModes == {Triangles, Lines}
\* vertex and index counts: none, a triangle, and the least u32 above i32::MAX
Counts == {0, 3, U32Modulus \div 2}

\* The fields are cached independently of one another; a behaviour writes
\* and invalidates the fields of one of these groups.
Scenarios ==
    { {"bound_array_buffer", "bound_element_buffer"},
      {"bound_textures", "blend_enabled"},
      {"blend_enabled", "blend_func"},
      {"depth_write", "color_write"},
      {"clear_color", "viewport"},
      {"bound_array_buffer", "program"} }

Touch(f) == f \in focus /\ UNCHANGED focus

\* ManagedContext::new
ContextInit ==
    /\ current_state = ContextStateDefault
    /\ last_flushed_state = ContextStateDefault
    /\ state_stack = <<>>

\* Mutate, forgetting to store the value as last-flushed
MutateKeepsLast(o, f, v, calls) ==
    /\ Touch(f)
    /\ IF last_flushed_state[f] # v
       THEN /\ UNCHANGED last_flushed_state
            /\ current_state' = [current_state EXCEPT ![f] = v]
            /\ Record(o, calls)
       ELSE /\ UNCHANGED <<last_flushed_state, current_state>>
            /\ Record(o, <<>>)
    /\ UNCHANGED <<state_stack, resVars, overflow_checks>>

\* Mutate, forgetting to store the value as current
MutateKeepsCurrent(o, f, v, calls) ==
    /\ Touch(f)
    /\ IF last_flushed_state[f] # v
       THEN /\ last_flushed_state' = [last_flushed_state EXCEPT ![f] = v]
            /\ UNCHANGED current_state
            /\ Record(o, calls)
       ELSE /\ UNCHANGED <<last_flushed_state, current_state>>
            /\ Record(o, <<>>)
    /\ UNCHANGED <<state_stack, resVars, overflow_checks>>

\* the shape shared by the mutators: compare with the last-flushed value and,
\* when it differs, store the value in both shadows and issue the call
Mutate(o, f, v, calls) ==
    /\ Touch(f)
    /\ IF last_flushed_state[f] # v
       THEN /\ last_flushed_state' = [last_flushed_state EXCEPT ![f] = v]
            /\ current_state' = [current_state EXCEPT ![f] = v]
            /\ Record(o, calls)
       ELSE /\ UNCHANGED <<last_flushed_state, current_state>>
            /\ Record(o, <<>>)
    /\ UNCHANGED <<state_stack, resVars, overflow_checks>>

\* Vec<PipelineState> has no limit of its own; the behaviours that study the
\* stack itself take it one level deeper than the others
StackDepth == IF "state_stack" \in focus THEN MaxStack + 1 ELSE MaxStack

save ==
    /\ Len(state_stack) < StackDepth
    /\ state_stack' = Append(state_stack, current_state)
    /\ Record(Op("save", <<>>), <<>>)
    /\ UNCHANGED <<current_state, last_flushed_state, resVars, overflow_checks, focus>>

\* restore, making do with the current state when the stack is empty
restore_or_keep ==
    /\ IF state_stack # <<>>
       THEN /\ current_state' = state_stack[Len(state_stack)]
            /\ state_stack' = SubSeq(state_stack, 1, Len(state_stack) - 1)
       ELSE UNCHANGED <<current_state, state_stack>>
    /\ Record(Op("restore", <<>>), <<>>)
    /\ UNCHANGED <<last_flushed_state, resVars, overflow_checks, focus>>

\* restore taking the oldest saved state instead of the newest
restore_oldest ==
    /\ IF state_stack # <<>>
       THEN /\ current_state' = Head(state_stack)
            /\ state_stack' = Tail(state_stack)
            /\ Record(Op("restore", <<>>), <<>>)
       ELSE /\ UNCHANGED <<current_state, state_stack>>
            /\ Record(Op("restore", <<"panic">>), <<>>)
    /\ UNCHANGED <<last_flushed_state, resVars, overflow_checks, focus>>

\* restore, taking the restored state for flushed as well
restore_flushed ==
    /\ IF state_stack # <<>>
       THEN /\ current_state' = state_stack[Len(state_stack)]
            /\ last_flushed_state' = state_stack[Len(state_stack)]
            /\ state_stack' = SubSeq(state_stack, 1, Len(state_stack) - 1)
            /\ Record(Op("restore", <<>>), <<>>)
       ELSE /\ UNCHANGED <<current_state, last_flushed_state, state_stack>>
            /\ Record(Op("restore", <<"panic">>), <<>>)
    /\ UNCHANGED <<resVars, overflow_checks, focus>>

\* pop().unwrap() panics on an empty stack, before anything is assigned
restore ==
    /\ IF state_stack # <<>>
       THEN /\ current_state' = state_stack[Len(state_stack)]
            /\ state_stack' = SubSeq(state_stack, 1, Len(state_stack) - 1)
            /\ Record(Op("restore", <<>>), <<>>)
       ELSE /\ UNCHANGED <<current_state, state_stack>>
            /\ Record(Op("restore", <<"panic">>), <<>>)
    /\ UNCHANGED <<last_flushed_state, resVars, overflow_checks, focus>>

set_blend_func(src, dst) ==
    Mutate(Op("set_blend_func", <<src, dst>>), "blend_func", <<src, dst>>,
           <<Call("blend_func", <<src, dst>>)>>)

set_blend(enabled) ==
    Mutate(Op("set_blend", <<enabled>>), "blend_enabled", enabled,
           <<Call(IF enabled THEN "enable" ELSE "disable", <<BLEND>>)>>)

set_depth_write(enabled) ==
    Mutate(Op("set_depth_write", <<enabled>>), "depth_write", enabled,
           <<Call("depth_mask", <<enabled>>)>>)

set_color_write(r, g, b, a) ==
    Mutate(Op("set_color_write", <<r, g, b, a>>), "color_write", <<r, g, b, a>>,
           <<Call("color_mask", <<r, g, b, a>>)>>)

use_program(program) ==
    Mutate(Op("use_program", <<program>>), "program", Known(program),
           <<Call("use_program", <<program>>)>>)

unuse_program ==
    Mutate(Op("unuse_program", <<>>), "program", Known(None),
           <<Call("use_program", <<None>>)>>)

bind_array_buffer(buffer) ==
    Mutate(Op("bind_array_buffer", <<buffer>>), "bound_array_buffer", Known(buffer),
           <<Call("bind_buffer", <<ARRAY_BUFFER, buffer>>)>>)

unbind_array_buffer ==
    Mutate(Op("unbind_array_buffer", <<>>), "bound_array_buffer", Known(None),
           <<Call("bind_buffer", <<ARRAY_BUFFER, None>>)>>)

bind_index_buffer(buffer) ==
    Mutate(Op("bind_index_buffer", <<buffer>>), "bound_element_buffer", Known(buffer),
           <<Call("bind_buffer", <<ELEMENT_ARRAY_BUFFER, buffer>>)>>)

unbind_index_buffer ==
    Mutate(Op("unbind_index_buffer", <<>>), "bound_element_buffer", Known(None),
           <<Call("bind_buffer", <<ELEMENT_ARRAY_BUFFER, None>>)>>)

\* bind_any_buffer, taking every buffer for a vertex buffer
bind_any_buffer_array(handle) ==
    Mutate(Op("bind_any_buffer", <<handle.ty, handle.buffer>>), "bound_array_buffer",
           Known(handle.buffer), <<Call("bind_buffer", <<ARRAY_BUFFER, handle.buffer>>)>>)

\* dispatches on the handle's BufferType
bind_any_buffer(handle) ==
    LET target == handle.ty
        f == IF target = ARRAY_BUFFER THEN "bound_array_buffer"
             ELSE "bound_element_buffer"
        buffer == handle.buffer
    IN  Mutate(Op("bind_any_buffer", <<target, buffer>>), f, Known(buffer),
               <<Call("bind_buffer", <<target, buffer>>)>>)

set_clear_color(color) ==
    Mutate(Op("set_clear_color", <<color>>), "clear_color", color,
           <<Call("clear_color", color)>>)

\* set_viewport, leaving the device call to flush_state
set_viewport_deferred(x, y, w, h) ==
    /\ Touch("viewport")
    /\ current_state' = [current_state EXCEPT !.viewport = <<x, y, w, h>>]
    /\ Record(Op("set_viewport", <<x, y, w, h>>), <<>>)
    /\ UNCHANGED <<last_flushed_state, state_stack, resVars, overflow_checks>>

set_viewport(x, y, w, h) ==
    Mutate(Op("set_viewport", <<x, y, w, h>>), "viewport", <<x, y, w, h>>,
           <<Call("viewport", <<x, y, w, h>>)>>)

\* texture units whose last-flushed binding is Unknown
InvalidUnits(st) == {u \in 0..(TextureUnits - 1) : st.bound_textures[u] = Unknown}

\* indexing the array with unit >= 16 panics
invalidate_texture(unit) ==
    /\ Touch("bound_textures")
    /\ IF unit < TextureUnits
       THEN /\ Cardinality(InvalidUnits(last_flushed_state) \cup {unit}) <= MaxInvalid
            /\ last_flushed_state' =
                   [last_flushed_state EXCEPT !.bound_textures[unit] = Unknown]
            /\ Record(Op("invalidate_texture", <<unit>>), <<>>)
       ELSE /\ UNCHANGED last_flushed_state
            /\ Record(Op("invalidate_texture", <<unit, "panic">>), <<>>)
    /\ UNCHANGED <<current_state, state_stack, resVars, overflow_checks>>

\* invalidate_index_buffer, forgetting the array buffer binding as well
invalidate_index_buffer_both ==
    /\ Touch("bound_element_buffer")
    /\ last_flushed_state' = [last_flushed_state EXCEPT !.bound_element_buffer = Unknown,
                                                       !.bound_array_buffer = Unknown]
    /\ Record(Op("invalidate_index_buffer", <<>>), <<>>)
    /\ UNCHANGED <<current_state, state_stack, resVars, overflow_checks>>

invalidate_index_buffer ==
    /\ Touch("bound_element_buffer")
    /\ last_flushed_state' = [last_flushed_state EXCEPT !.bound_element_buffer = Unknown]
    /\ Record(Op("invalidate_index_buffer", <<>>), <<>>)
    /\ UNCHANGED <<current_state, state_stack, resVars, overflow_checks>>

\* invalidate_array_buffer, forgetting the current binding as well
invalidate_array_buffer_current ==
    /\ Touch("bound_array_buffer")
    /\ last_flushed_state' = [last_flushed_state EXCEPT !.bound_array_buffer = Unknown]
    /\ current_state' = [current_state EXCEPT !.bound_array_buffer = Unknown]
    /\ Record(Op("invalidate_array_buffer", <<>>), <<>>)
    /\ UNCHANGED <<state_stack, resVars, overflow_checks>>

invalidate_array_buffer ==
    /\ Touch("bound_array_buffer")
    /\ last_flushed_state' = [last_flushed_state EXCEPT !.bound_array_buffer = Unknown]
    /\ Record(Op("invalidate_array_buffer", <<>>), <<>>)
    /\ UNCHANGED <<current_state, state_stack, resVars, overflow_checks>>

\* a device call whose argument is read with assume_known: the read panics
\* on Unknown, which is written here as the pseudo call "panic"
KnownCall(m, f, a) == IF IsKnown(m) THEN Call(f, a) ELSE Call("panic", <<>>)

\* FlushTextures, binding without selecting the unit
RECURSIVE FlushTexturesNoSelect(_, _, _)
FlushTexturesNoSelect(cur, old, i) ==
    IF i >= TextureUnits THEN <<>>
    ELSE (IF cur.bound_textures[i] # old.bound_textures[i]
          THEN <<KnownCall(cur.bound_textures[i], "bind_texture",
                           <<TEXTURE_2D, assume_known(cur.bound_textures[i])>>)>>
          ELSE <<>>)
         \o FlushTexturesNoSelect(cur, old, i + 1)

\* the loop of flush_state over the texture units, from unit i on
RECURSIVE FlushTextures(_, _, _)
FlushTextures(cur, old, i) ==
    IF i >= TextureUnits THEN <<>>
    ELSE (IF cur.bound_textures[i] # old.bound_textures[i]
          THEN <<Call("active_texture", <<TEXTURE0 + i>>),
                 KnownCall(cur.bound_textures[i], "bind_texture",
                           <<TEXTURE_2D, assume_known(cur.bound_textures[i])>>)>>
          ELSE <<>>)
         \o FlushTextures(cur, old, i + 1)

\* the calls of flush_state, in the order of its code, for the shadow pair
FlushDiff(cur, old) ==
       (IF old.bound_array_buffer # cur.bound_array_buffer
        THEN <<KnownCall(cur.bound_array_buffer, "bind_buffer",
                         <<ARRAY_BUFFER, assume_known(cur.bound_array_buffer)>>)>>
        ELSE <<>>)
    \o (IF old.bound_element_buffer # cur.bound_element_buffer
        THEN <<KnownCall(cur.bound_element_buffer, "bind_buffer",
                         <<ELEMENT_ARRAY_BUFFER, assume_known(cur.bound_element_buffer)>>)>>
        ELSE <<>>)
    \o FlushTextures(cur, old, 0)
    \o (IF old.blend_enabled /\ ~cur.blend_enabled THEN <<Call("disable", <<BLEND>>)>>
        ELSE IF ~old.blend_enabled /\ cur.blend_enabled THEN <<Call("enable", <<BLEND>>)>>
        ELSE <<>>)
    \o (IF old.blend_func # cur.blend_func
        THEN <<Call("blend_func", cur.blend_func)>> ELSE <<>>)
    \o (IF old.clear_color # cur.clear_color
        THEN <<Call("clear_color", cur.clear_color)>> ELSE <<>>)
    \o (IF old.depth_enabled /\ ~cur.depth_enabled THEN <<Call("disable", <<DEPTH_TEST>>)>>
        ELSE IF ~old.depth_enabled /\ cur.depth_enabled THEN <<Call("enable", <<DEPTH_TEST>>)>>
        ELSE <<>>)
    \o (IF old.color_write # cur.color_write
        THEN <<Call("color_mask", cur.color_write)>> ELSE <<>>)
    \o (IF old.depth_write # cur.depth_write
        THEN <<Call("depth_mask", <<cur.depth_write>>)>> ELSE <<>>)
    \o (IF old.program # cur.program
        THEN <<KnownCall(cur.program, "use_program", <<assume_known(cur.program)>>)>>
        ELSE <<>>)
    \o (IF old.viewport # cur.viewport
        THEN <<Call("viewport", cur.viewport)>> ELSE <<>>)

\* FlushCalls, taking an Unknown last-flushed binding for unchanged
FlushCallsSkipUnknown(cur, old) ==
    FlushDiff(cur,
        [old EXCEPT
            !.bound_array_buffer = IF @ = Unknown THEN cur.bound_array_buffer ELSE @,
            !.bound_element_buffer = IF @ = Unknown THEN cur.bound_element_buffer ELSE @,
            !.bound_textures = [u \in DOMAIN @ |->
                                   IF @[u] = Unknown THEN cur.bound_textures[u] ELSE @[u]]])

FlushCalls(cur, old) == FlushDiff(cur, old)

\* the calls issued before the first panic
RECURSIVE UntilPanic(_)
UntilPanic(calls) ==
    IF calls = <<>> \/ Head(calls).f = "panic" THEN <<>>
    ELSE <<Head(calls)>> \o UntilPanic(Tail(calls))

\* flush_state, forgetting to record the flushed state
flush_state_keeps_last ==
    LET calls == FlushCalls(current_state, last_flushed_state)
    IN  /\ UNCHANGED last_flushed_state
        /\ Record(Op("flush_state", <<>>), UntilPanic(calls))
        /\ UNCHANGED <<current_state, state_stack, resVars, overflow_checks, focus>>

flush_state ==
    LET calls == FlushCalls(current_state, last_flushed_state)
        done == UntilPanic(calls)
    IN  /\ IF Len(done) = Len(calls)
           THEN /\ last_flushed_state' = current_state
                /\ Record(Op("flush_state", <<>>), done)
           ELSE /\ UNCHANGED last_flushed_state
                /\ Record(Op("flush_state", <<"panic">>), done)
        /\ UNCHANGED <<current_state, state_stack, resVars, overflow_checks, focus>>

\* Draw, issuing its call twice
DrawTwice(o, call) ==
    /\ Record(o, <<call, call>>)
    /\ UNCHANGED <<ctxVars, resVars, overflow_checks, focus>>

\* what the draw calls and clear share: one device call, nothing else
Draw(o, call) ==
    /\ Record(o, <<call>>)
    /\ UNCHANGED <<ctxVars, resVars, overflow_checks, focus>>

draw_elements(mode, count, ty, offset) ==
    Draw(Op("draw_elements", <<mode, count, ty, offset>>),
         Call("draw_elements", <<mode, AsI32(count), ty, offset>>))

draw_arrays(mode, first, count) ==
    Draw(Op("draw_arrays", <<mode, first, count>>),
         Call("draw_arrays", <<mode, first, count>>))

clear(mask) ==
    Draw(Op("clear", <<mask>>), Call("clear", <<mask>>))

----------------------------------------------------------------------------
(* BufferHandle (src/src/buffer.rs).  A handle is a slot of `buffers`; the *)
(* data passed to it is known by its length only.                          *)

HandleIds == 1..MaxHandles

NoBuffer == [live |-> FALSE, buffer |-> None, ty |-> 0, capacity |-> 0]

BufferHandle(buffer, ty, capacity) ==
    [live |-> TRUE, buffer |-> buffer, ty |-> ty, capacity |-> capacity]

LiveHandles == {h \in HandleIds : buffers[h].live}

\* usize, kept at 30 bits so that sums stay within TLC's integers; every
\* capacity and length of the model is far below it
UsizeModulus == 2 ^ 30

\* `offset as usize` of an i32: sign extension, then reinterpretation
AsUsize(offset) == offset % UsizeModulus

\* UpdateCheck with the bound taken as strict
UpdateCheckStrict(offset, len, capacity, checks) ==
    LET sum == AsUsize(offset) + len
    IN  IF sum >= UsizeModulus /\ checks THEN "overflow"
        ELSE IF sum % UsizeModulus < capacity THEN "ok"
        ELSE "out of bounds write!"

\* `offset as usize + data.len() <= self.capacity`: "ok", or the panic of the
\* failed assertion, or (with overflow checks, the debug profile) the panic of
\* the overflowing addition; without them the sum wraps
UpdateCheck(offset, len, capacity, checks) ==
    LET sum == AsUsize(offset) + len
    IN  IF sum >= UsizeModulus /\ checks THEN "overflow"
        ELSE IF sum % UsizeModulus <= capacity THEN "ok"
        ELSE "out of bounds write!"

\* BufferHandle::array_buffer and ::index_buffer: `create_buffer()?` returns
\* the device's error to the caller
CreateBuffer(name, h, ty, n, b) ==
    /\ ~buffers[h].live
    /\ IF b = None
       THEN /\ UNCHANGED buffers
            /\ Record(Op(name, <<h, n, "Err">>), <<>>)
       ELSE /\ b \notin gl.buffers
            /\ buffers' = [buffers EXCEPT ![h] = BufferHandle(b, ty, n)]
            /\ Record(Op(name, <<h, n, "Ok">>),
                      <<Call("create_buffer", <<b>>),
                        Call("bind_buffer", <<ty, b>>),
                        Call("buffer_data", <<ty, n>>)>>)
    /\ UNCHANGED <<ctxVars, programs, pipelines, arc_strong, textures, vaos, overflow_checks, focus>>

array_buffer(h, n, b) == CreateBuffer("array_buffer", h, ARRAY_BUFFER, n, b)

index_buffer(h, n, b) == CreateBuffer("index_buffer", h, ELEMENT_ARRAY_BUFFER, n, b)

\* BufferHandle::capacity
capacity(h) == buffers[h].capacity

\* realloc, forgetting to store the new capacity
realloc_keeps_capacity(h, n) ==
    /\ buffers[h].live
    /\ UNCHANGED buffers
    /\ Record(Op("realloc", <<h, n>>),
              <<Call("bind_buffer", <<buffers[h].ty, buffers[h].buffer>>),
                Call("buffer_data", <<buffers[h].ty, n>>)>>)
    /\ UNCHANGED <<ctxVars, programs, pipelines, arc_strong, textures, vaos, overflow_checks, focus>>

realloc(h, n) ==
    /\ buffers[h].live
    /\ buffers' = [buffers EXCEPT ![h].capacity = n]
    /\ Record(Op("realloc", <<h, n>>),
              <<Call("bind_buffer", <<buffers[h].ty, buffers[h].buffer>>),
                Call("buffer_data", <<buffers[h].ty, n>>)>>)
    /\ UNCHANGED <<ctxVars, programs, pipelines, arc_strong, textures, vaos, overflow_checks, focus>>

update(h, offset, n) ==
    LET res == UpdateCheck(offset, n, capacity(h), overflow_checks)
    IN  /\ buffers[h].live
        /\ Record(Op("update", <<h, offset, n, res>>),
                  IF res = "ok"
                  THEN <<Call("bind_buffer", <<buffers[h].ty, buffers[h].buffer>>),
                         Call("buffer_sub_data", <<buffers[h].ty, offset, n>>)>>
                  ELSE <<>>)
        /\ UNCHANGED <<ctxVars, resVars, overflow_checks, focus>>

\* #[derive(Clone)]: a second handle with the same native buffer
clone_buffer(h, h2) ==
    /\ buffers[h].live
    /\ ~buffers[h2].live
    /\ buffers' = [buffers EXCEPT ![h2] = buffers[h]]
    /\ Record(Op("clone_buffer", <<h, h2>>), <<>>)
    /\ UNCHANGED <<ctxVars, programs, pipelines, arc_strong, textures, vaos, overflow_checks, focus>>

\* impl Drop for BufferHandle
drop_buffer(h) ==
    /\ buffers[h].live
    /\ buffers' = [buffers EXCEPT ![h] = NoBuffer]
    /\ Record(Op("drop_buffer", <<h>>), <<Call("delete_buffer", <<buffers[h].buffer>>)>>)
    /\ UNCHANGED <<ctxVars, programs, pipelines, arc_strong, textures, vaos, overflow_checks, focus>>

\* BindableBuffer::bind for &BufferHandle: assert_eq!(target, self.ty()), then
\* the device bind; the context is not told
BindableBuffer_bind(h, target) ==
    /\ buffers[h].live
    /\ IF target = buffers[h].ty
       THEN Record(Op("BindableBuffer_bind", <<h, target, "ok">>),
                   <<Call("bind_buffer", <<target, buffers[h].buffer>>)>>)
       ELSE Record(Op("BindableBuffer_bind",
                      <<h, target, "Attempted to bind buffer to invalid binding point">>),
                   <<>>)
    /\ UNCHANGED <<ctxVars, resVars, overflow_checks, focus>>

----------------------------------------------------------------------------
(* ShaderProgram (src/src/shader.rs).                                      *)

ProgramIds == 1..MaxPrograms

NoProgram == [live |-> FALSE, program |-> None, shared |-> FALSE]

LivePrograms == {p \in ProgramIds : programs[p].live}

\* StageCalls, carrying on after a failed compilation
StageCallsIgnoresStatus(program, ty, shader, ok) ==
    IF shader = None THEN <<Call("panic", <<"Cannot create shader">>)>>
    ELSE <<Call("create_shader", <<ty, shader>>),
           Call("shader_source", <<shader>>),
           Call("compile_shader", <<shader>>),
           Call("get_shader_compile_status", <<shader, ok>>),
           Call("attach_shader", <<program, shader>>)>>

\* one pass of the loop of compile_shader over the shader sources; `shader`
\* is the name create_shader returns (None: it fails), `ok` the compile status
StageCalls(program, ty, shader, ok) ==
    IF shader = None THEN <<Call("panic", <<"Cannot create shader">>)>>
    ELSE <<Call("create_shader", <<ty, shader>>),
           Call("shader_source", <<shader>>),
           Call("compile_shader", <<shader>>),
           Call("get_shader_compile_status", <<shader, ok>>)>>
         \o (IF ok THEN <<Call("attach_shader", <<program, shader>>)>>
             ELSE <<Call("get_shader_info_log", <<shader>>),
                    Call("panic", <<"shader log", shader>>)>>)

\* CompileCalls, cleaning up the first shader only
CompileCallsLeaksShader(program, vs, fs, vsOk, fsOk, linkOk) ==
    IF program = None THEN <<Call("panic", <<"Cannot create program">>)>>
    ELSE <<Call("create_program", <<program>>)>>
         \o StageCalls(program, VERTEX_SHADER, vs, vsOk)
         \o StageCalls(program, FRAGMENT_SHADER, fs, fsOk)
         \o <<Call("link_program", <<program>>),
              Call("get_program_link_status", <<program, linkOk>>)>>
         \o (IF linkOk THEN <<>>
             ELSE <<Call("get_program_info_log", <<program>>),
                    Call("panic", <<"program log", program>>)>>)
         \o <<Call("detach_shader", <<program, vs>>), Call("delete_shader", <<vs>>)>>

\* compile_shader, every call it would make were nothing to panic
CompileCalls(program, vs, fs, vsOk, fsOk, linkOk) ==
    IF program = None THEN <<Call("panic", <<"Cannot create program">>)>>
    ELSE <<Call("create_program", <<program>>)>>
         \o StageCalls(program, VERTEX_SHADER, vs, vsOk)
         \o StageCalls(program, FRAGMENT_SHADER, fs, fsOk)
         \o <<Call("link_program", <<program>>),
              Call("get_program_link_status", <<program, linkOk>>)>>
         \o (IF linkOk THEN <<>>
             ELSE <<Call("get_program_info_log", <<program>>),
                    Call("panic", <<"program log", program>>)>>)
         \o <<Call("detach_shader", <<program, vs>>), Call("delete_shader", <<vs>>),
              Call("detach_shader", <<program, fs>>), Call("delete_shader", <<fs>>)>>

\* the payload of the first panic, <<>> when there is none
RECURSIVE PanicOf(_)
PanicOf(calls) ==
    IF calls = <<>> THEN <<>>
    ELSE IF Head(calls).f = "panic" THEN Head(calls).a
    ELSE PanicOf(Tail(calls))

\* ShaderProgram::new: the handle exists only when compile_shader returns
ShaderProgram_new(p, program, vs, fs, vsOk, fsOk, linkOk) ==
    LET calls == CompileCalls(program, vs, fs, vsOk, fsOk, linkOk)
        done == UntilPanic(calls)
    IN  /\ ~programs[p].live
        /\ program \notin gl.programs
        /\ vs \notin gl.shaders
        /\ fs \notin gl.shaders \cup (IF vs = None THEN {} ELSE {vs})
        /\ programs' = IF Len(done) = Len(calls)
                       THEN [programs EXCEPT ![p] =
                                [live |-> TRUE, program |-> program, shared |-> FALSE]]
                       ELSE programs
        /\ Record(Op("ShaderProgram_new", <<p, PanicOf(calls)>>), done)
        /\ UNCHANGED <<ctxVars, buffers, pipelines, arc_strong, textures, vaos, overflow_checks, focus>>

UniformCalls ==
    {"uniform_4_f32", "uniform_3_f32", "uniform_2_f32", "uniform_1_f32",
     "uniform_matrix_2_f32_slice", "uniform_matrix_3_f32_slice",
     "uniform_matrix_4_f32_slice"}

\* ShaderProgram::set_uniform_*: `loc` is what get_uniform_location returns,
\* None for a name the program does not have
set_uniform(p, upload, loc) ==
    /\ programs[p].live
    /\ Record(Op("set_uniform", <<p, upload, loc>>),
              <<Call("use_program", <<programs[p].program>>),
                Call("get_uniform_location", <<programs[p].program>>),
                Call(upload, <<loc>>)>>)
    /\ UNCHANGED <<ctxVars, resVars, overflow_checks, focus>>

\* impl Drop for ShaderProgram
DropProgramCalls(p) == <<Call("delete_program", <<programs[p].program>>)>>

\* a ShaderProgram the caller still owns goes out of scope
drop_program(p) ==
    /\ programs[p].live
    /\ ~programs[p].shared
    /\ programs' = [programs EXCEPT ![p] = NoProgram]
    /\ Record(Op("drop_program", <<p>>), DropProgramCalls(p))
    /\ UNCHANGED <<ctxVars, buffers, pipelines, arc_strong, textures, vaos, overflow_checks, focus>>

----------------------------------------------------------------------------
(* TextureHandle and Texture2D (src/src/texture.rs,                        *)
(* src/src/texture/tex_2d.rs).  A Texture2D is its TextureHandle after     *)
(* allocate_2d_data: `allocated` tells the two apart.                      *)

TextureIds == 1..MaxTextures

NoTexture == [live |-> FALSE, texture |-> None, allocated |-> FALSE]

LiveTextures == {t \in TextureIds : textures[t].live}

\* what the texture operations share: bind, one call, unbind
TextureCalls(texture, call) ==
    <<Call("bind_texture", <<TEXTURE_2D, texture>>),
      call,
      Call("bind_texture", <<TEXTURE_2D, None>>)>>

\* TextureHandle::new: `create_texture()?` returns the device's error
TextureHandle_new(t, texture) ==
    /\ ~textures[t].live
    /\ IF texture = None
       THEN /\ UNCHANGED textures
            /\ Record(Op("TextureHandle_new", <<t, "Err">>), <<>>)
       ELSE /\ texture \notin gl.texture_objects
            /\ textures' = [textures EXCEPT ![t] =
                   [live |-> TRUE, texture |-> texture, allocated |-> FALSE]]
            /\ Record(Op("TextureHandle_new", <<t, "Ok">>),
                      <<Call("create_texture", <<texture>>),
                        Call("bind_texture", <<TEXTURE_2D, texture>>),
                        Call("tex_parameter_i32", <<TEXTURE_2D, "TEXTURE_WRAP_S">>),
                        Call("tex_parameter_i32", <<TEXTURE_2D, "TEXTURE_WRAP_T">>),
                        Call("tex_parameter_i32", <<TEXTURE_2D, "TEXTURE_MAG_FILTER">>),
                        Call("tex_parameter_i32", <<TEXTURE_2D, "TEXTURE_MIN_FILTER">>),
                        Call("bind_texture", <<TEXTURE_2D, None>>)>>)
    /\ UNCHANGED <<ctxVars, buffers, programs, pipelines, arc_strong, vaos,
                   overflow_checks, focus>>

\* TextureHandle::set_border_color
set_border_color(t) ==
    /\ textures[t].live
    /\ ~textures[t].allocated
    /\ Record(Op("set_border_color", <<t>>),
              TextureCalls(textures[t].texture,
                           Call("tex_parameter_f32_slice", <<TEXTURE_2D, "TEXTURE_BORDER_COLOR">>)))
    /\ UNCHANGED <<ctxVars, resVars, overflow_checks, focus>>

\* allocate_2d_data, dropping the handle it was given
allocate_2d_data_drops_handle(t, width, height) ==
    /\ textures[t].live
    /\ ~textures[t].allocated
    /\ textures' = [textures EXCEPT ![t].allocated = TRUE]
    /\ Record(Op("allocate_2d_data", <<t, width, height>>),
              TextureCalls(textures[t].texture, Call("tex_image_2d", <<width, height>>))
              \o <<Call("delete_texture", <<textures[t].texture>>)>>)
    /\ UNCHANGED <<ctxVars, buffers, programs, pipelines, arc_strong, vaos,
                   overflow_checks, focus>>

\* TextureHandle::allocate_2d_data: the handle moves into the Texture2D
allocate_2d_data(t, width, height) ==
    /\ textures[t].live
    /\ ~textures[t].allocated
    /\ textures' = [textures EXCEPT ![t].allocated = TRUE]
    /\ Record(Op("allocate_2d_data", <<t, width, height>>),
              TextureCalls(textures[t].texture, Call("tex_image_2d", <<width, height>>)))
    /\ UNCHANGED <<ctxVars, buffers, programs, pipelines, arc_strong, vaos,
                   overflow_checks, focus>>

\* Texture2D::generate_mipmaps
generate_mipmaps(t) ==
    /\ textures[t].live
    /\ textures[t].allocated
    /\ Record(Op("generate_mipmaps", <<t>>),
              TextureCalls(textures[t].texture, Call("generate_mipmap", <<TEXTURE_2D>>)))
    /\ UNCHANGED <<ctxVars, resVars, overflow_checks, focus>>

\* write_subimage, regenerating the mipmaps of what it wrote
write_subimage_regenerates(t, x_offset, y_offset, width, height) ==
    /\ textures[t].live
    /\ textures[t].allocated
    /\ Record(Op("write_subimage", <<t, x_offset, y_offset, width, height>>),
              << Call("bind_texture", <<TEXTURE_2D, textures[t].texture>>),
                 Call("tex_sub_image_2d", <<x_offset, y_offset, width, height>>),
                 Call("generate_mipmap", <<TEXTURE_2D>>),
                 Call("bind_texture", <<TEXTURE_2D, None>>) >>)
    /\ UNCHANGED <<ctxVars, resVars, overflow_checks, focus>>

\* Texture2D::write_subimage: the rectangle goes to the device as it is
write_subimage(t, x_offset, y_offset, width, height) ==
    /\ textures[t].live
    /\ textures[t].allocated
    /\ Record(Op("write_subimage", <<t, x_offset, y_offset, width, height>>),
              TextureCalls(textures[t].texture,
                           Call("tex_sub_image_2d", <<x_offset, y_offset, width, height>>)))
    /\ UNCHANGED <<ctxVars, resVars, overflow_checks, focus>>

\* impl Drop for TextureHandle, which a Texture2D holds as its only field
drop_texture(t) ==
    /\ textures[t].live
    /\ textures' = [textures EXCEPT ![t] = NoTexture]
    /\ Record(Op("drop_texture", <<t, textures[t].allocated>>),
              <<Call("delete_texture", <<textures[t].texture>>)>>)
    /\ UNCHANGED <<ctxVars, buffers, programs, pipelines, arc_strong, vaos,
                   overflow_checks, focus>>

----------------------------------------------------------------------------
(* VertexArrayObject (src/src/va.rs).                                      *)

VaoIds == 1..MaxVaos

NoVao == [live |-> FALSE, vao |-> None]

\* VertexArrayObject::new: `create_vertex_array().unwrap()` panics on the
\* device's error
VertexArrayObject_new(a, vao) ==
    /\ ~vaos[a].live
    /\ IF vao = None
       THEN /\ UNCHANGED vaos
            /\ Record(Op("VertexArrayObject_new", <<a, "panic">>), <<>>)
       ELSE /\ vao \notin gl.vertex_arrays
            /\ vaos' = [vaos EXCEPT ![a] = [live |-> TRUE, vao |-> vao]]
            /\ Record(Op("VertexArrayObject_new", <<a, "Ok">>),
                      <<Call("create_vertex_array", <<vao>>)>>)
    /\ UNCHANGED <<ctxVars, buffers, programs, pipelines, arc_strong, textures,
                   overflow_checks, focus>>

\* impl Drop for VertexArrayObject
drop_vao(a) ==
    /\ vaos[a].live
    /\ vaos' = [vaos EXCEPT ![a] = NoVao]
    /\ Record(Op("drop_vao", <<a>>), <<Call("delete_vertex_array", <<vaos[a].vao>>)>>)
    /\ UNCHANGED <<ctxVars, buffers, programs, pipelines, arc_strong, textures,
                   overflow_checks, focus>>

\* VertexArrayObject::attrib_pointer: binds the vertex array, declares the
\* attribute, unbinds
attrib_pointer(a, index, size, data_type, normalized, stride, offset) ==
    /\ vaos[a].live
    /\ Record(Op("attrib_pointer", <<a, index>>),
              << Call("bind_vertex_array", <<vaos[a].vao>>),
                 Call("vertex_attrib_pointer_f32",
                      <<index, size, data_type, normalized, stride, offset>>),
                 Call("bind_vertex_array", <<None>>) >>)
    /\ UNCHANGED <<ctxVars, resVars, overflow_checks, focus>>

\* VertexArrayObject::enable_attrib
enable_attrib(a, index) ==
    /\ vaos[a].live
    /\ Record(Op("enable_attrib", <<a, index>>),
              << Call("bind_vertex_array", <<vaos[a].vao>>),
                 Call("enable_vertex_attrib_array", <<index>>),
                 Call("bind_vertex_array", <<None>>) >>)
    /\ UNCHANGED <<ctxVars, resVars, overflow_checks, focus>>

\* a vertex array that a running bind_vertex_array_with has borrowed
BorrowedVao(a) == \E i \in 1..Len(scope) : scope[i] = <<"bind_vertex_array_with", a>>

\* ManagedContext::bind_vertex_array_with, up to the call of the closure:
\* the vertex array is bound and the closure runs next
bind_vertex_array_with(a) ==
    /\ vaos[a].live
    /\ \A i \in 1..Len(scope) : scope[i][1] = "bind_vertex_array_with"
    /\ Len(scope) < MaxNest
    /\ Record(Op("bind_vertex_array_with", <<a>>),
              <<Call("bind_vertex_array", <<vaos[a].vao>>)>>)
    /\ UNCHANGED <<ctxVars, resVars, overflow_checks, focus>>

\* bind_vertex_array_with_return, leaving the vertex array bound
bind_vertex_array_with_return_bound ==
    /\ scope # <<>>
    /\ scope[Len(scope)][1] = "bind_vertex_array_with"
    /\ Record(Op("bind_vertex_array_with_return", <<scope[Len(scope)][2]>>), <<>>)
    /\ UNCHANGED <<ctxVars, resVars, overflow_checks, focus>>

\* ManagedContext::bind_vertex_array_with, once the closure has returned
bind_vertex_array_with_return ==
    /\ scope # <<>>
    /\ scope[Len(scope)][1] = "bind_vertex_array_with"
    /\ Record(Op("bind_vertex_array_with_return", <<scope[Len(scope)][2]>>),
              <<Call("bind_vertex_array", <<None>>)>>)
    /\ UNCHANGED <<ctxVars, resVars, overflow_checks, focus>>

----------------------------------------------------------------------------
(* RenderPipeline (src/src/pipeline.rs).  Its program is an                *)
(* Arc<ShaderProgram>: arc_strong[p] counts the pipelines that hold the    *)
(* ShaderProgram of slot p.                                                *)

PipelineIds == 1..MaxPipelines

NoPipeline == [live |-> FALSE]

LivePipelines == {q \in PipelineIds : pipelines[q].live}

\* RenderPipeline::new takes the ShaderProgram by value and wraps it in a
\* new Arc
RenderPipeline_new(q, p) ==
    /\ ~pipelines[q].live
    /\ programs[p].live
    /\ ~programs[p].shared
    /\ pipelines' = [pipelines EXCEPT ![q] =
           [ live              |-> TRUE,
             blend_enabled     |-> FALSE,
             blend_func        |-> <<0, 0>>,
             scissor_enabled   |-> FALSE,
             stencil_state     |-> <<"None">>,
             depth_enabled     |-> FALSE,
             depth_write       |-> FALSE,
             color_write       |-> <<TRUE, TRUE, TRUE, TRUE>>,
             program           |-> p,
             vertex_attributes |-> <<>> ]]
    /\ programs' = [programs EXCEPT ![p].shared = TRUE]
    /\ arc_strong' = [arc_strong EXCEPT ![p] = 1]
    /\ Record(Op("RenderPipeline_new", <<q, p>>), <<>>)
    /\ UNCHANGED <<ctxVars, buffers, textures, vaos, overflow_checks, focus>>

\* #[derive(Clone)]: Arc::clone adds a strong reference
clone_pipeline(q, q2) ==
    /\ pipelines[q].live
    /\ ~pipelines[q2].live
    /\ pipelines' = [pipelines EXCEPT ![q2] = pipelines[q]]
    /\ arc_strong' = [arc_strong EXCEPT ![pipelines[q].program] = @ + 1]
    /\ Record(Op("clone_pipeline", <<q, q2>>), <<>>)
    /\ UNCHANGED <<ctxVars, buffers, programs, textures, vaos, overflow_checks, focus>>

\* ArcIsLast of a pipeline that owns the program outright
ArcIsLastAlways(p) == TRUE

\* Arc's drop: the value is dropped with the last strong reference
ArcIsLast(p) == arc_strong[p] = 1

\* dropping a RenderPipeline drops its Arc<ShaderProgram>
drop_pipeline(q) ==
    LET p == pipelines[q].program
    IN  /\ pipelines[q].live
        /\ pipelines' = [pipelines EXCEPT ![q] = NoPipeline]
        /\ arc_strong' = [arc_strong EXCEPT ![p] = @ - 1]
        /\ IF ArcIsLast(p)
           THEN /\ programs' = [programs EXCEPT ![p] = NoProgram]
                /\ Record(Op("drop_pipeline", <<q>>), DropProgramCalls(p))
           ELSE /\ UNCHANGED programs
                /\ Record(Op("drop_pipeline", <<q>>), <<>>)
        /\ UNCHANGED <<ctxVars, buffers, textures, vaos, overflow_checks, focus>>

\* a pipeline that a running with_pipeline has borrowed
Borrowed(q) == \E i \in 1..Len(scope) : scope[i] = <<"with_pipeline", q>>

\* VertexAttributeDescriptor values: two buffer slots, two layouts
Descriptors ==
    {[buffer_index |-> b, size |-> n, ty |-> FLOAT, normalized |-> FALSE,
      stride |-> 4 * n, offset |-> 0, divisor |-> 0] : b \in 0..1, n \in {2, 3}}

\* StencilState::default()
StencilStateDefault ==
    [front_mask |-> 255, back_mask |-> 255,
     front |-> [mask |-> 255, func |-> ALWAYS, sref |-> 1],
     back |-> [mask |-> 255, func |-> ALWAYS, sref |-> 1],
     front_stencil_op |-> <<KEEP, KEEP, KEEP>>,
     back_stencil_op |-> <<KEEP, KEEP, KEEP>>]

\* Option<StencilState>
Stencils == {<<"None">>, <<"Some", StencilStateDefault>>}

\* a builder step: `Self { field: value, ..self }` moves every other field
\* into the new pipeline
With(o, q, f, v) ==
    /\ pipelines[q].live
    /\ ~Borrowed(q)
    /\ pipelines' = [pipelines EXCEPT ![q][f] = v]
    /\ Record(o, <<>>)
    /\ UNCHANGED <<ctxVars, buffers, programs, arc_strong, textures, vaos,
                   overflow_checks, focus>>

\* with_vertex_attribute, putting the new descriptor first
with_vertex_attribute_first(q, attr) ==
    /\ pipelines[q].live
    /\ Len(pipelines[q].vertex_attributes) < MaxAttribs
    /\ With(Op("with_vertex_attribute", <<q, attr>>), q, "vertex_attributes",
            <<attr>> \o pipelines[q].vertex_attributes)

with_vertex_attribute(q, attr) ==
    /\ pipelines[q].live
    /\ Len(pipelines[q].vertex_attributes) < MaxAttribs
    /\ With(Op("with_vertex_attribute", <<q, attr>>), q, "vertex_attributes",
            Append(pipelines[q].vertex_attributes, attr))

with_blend(q, enabled) ==
    With(Op("with_blend", <<q, enabled>>), q, "blend_enabled", enabled)

with_blend_func(q, src, dst) ==
    With(Op("with_blend_func", <<q, src, dst>>), q, "blend_func", <<src, dst>>)

with_depth(q, enabled) ==
    With(Op("with_depth", <<q, enabled>>), q, "depth_enabled", enabled)

with_depth_write(q, enabled) ==
    With(Op("with_depth_write", <<q, enabled>>), q, "depth_write", enabled)

with_color_write(q, r, g, b, a) ==
    With(Op("with_color_write", <<q, r, g, b, a>>), q, "color_write", <<r, g, b, a>>)

with_stencil(q, stencil) ==
    With(Op("with_stencil", <<q, stencil>>), q, "stencil_state", stencil)

\* the public builder: any of the with_* methods of impl RenderPipeline,
\* called on the pipeline q with any argument
WithStep(q) ==
    \/ \E attr \in Descriptors : with_vertex_attribute(q, attr)
    \/ \E enabled \in BOOLEAN : with_blend(q, enabled)
    \/ \E f \in BlendFuncs : with_blend_func(q, f[1], f[2])
    \/ \E enabled \in BOOLEAN : with_depth(q, enabled)
    \/ \E enabled \in BOOLEAN : with_depth_write(q, enabled)
    \/ \E m \in ColorMasks : with_color_write(q, m[1], m[2], m[3], m[4])
    \/ \E stencil \in Stencils : with_stencil(q, stencil)

----------------------------------------------------------------------------
(* Pipeline application and the Drawable: with_pipeline and apply_bindings *)
(* are called by src/examples but are not part of src/src; they follow     *)
(* spec.md, section 4.2.  Their device calls bypass the state shadow.      *)

EnableCall(cap, on) == Call(IF on THEN "enable" ELSE "disable", <<cap>>)

\* the native program of a pipeline
NativeProgram(q) == programs[pipelines[q].program].program

StencilCalls(st) ==
    IF st[1] = "None" THEN <<Call("disable", <<STENCIL_TEST>>)>>
    ELSE LET x == st[2]
         IN  << Call("stencil_mask_separate", <<FRONT, x.front_mask>>),
                Call("stencil_func_separate",
                     <<FRONT, x.front.func, x.front.sref, x.front.mask>>),
                Call("stencil_op_separate", <<FRONT>> \o x.front_stencil_op),
                Call("stencil_mask_separate", <<BACK, x.back_mask>>),
                Call("stencil_func_separate",
                     <<BACK, x.back.func, x.back.sref, x.back.mask>>),
                Call("stencil_op_separate", <<BACK>> \o x.back_stencil_op) >>

\* EnterCalls, leaving out the program bind when the device has the program
\* installed already
EnterCallsDiffed(q) ==
    LET pl == pipelines[q]
    IN  << EnableCall(BLEND, pl.blend_enabled),
           Call("blend_func", pl.blend_func),
           EnableCall(DEPTH_TEST, pl.depth_enabled),
           Call("color_mask", pl.color_write),
           Call("depth_mask", <<pl.depth_write>>) >>
        \o (IF gl.program = NativeProgram(q) THEN <<>>
            ELSE <<Call("use_program", <<NativeProgram(q)>>)>>)
        \o << Call("bind_vertex_array", <<SharedVertexArray>>),
              EnableCall(SCISSOR_TEST, pl.scissor_enabled) >>
        \o StencilCalls(pl.stencil_state)

\* the calls that enter a scope, whatever was applied before
EnterCalls(q) ==
    LET pl == pipelines[q]
    IN  << EnableCall(BLEND, pl.blend_enabled),
           Call("blend_func", pl.blend_func),
           EnableCall(DEPTH_TEST, pl.depth_enabled),
           Call("color_mask", pl.color_write),
           Call("depth_mask", <<pl.depth_write>>),
           Call("use_program", <<NativeProgram(q)>>),
           Call("bind_vertex_array", <<SharedVertexArray>>),
           EnableCall(SCISSOR_TEST, pl.scissor_enabled) >>
        \o StencilCalls(pl.stencil_state)

\* the scope is entered: the closure runs next
with_pipeline(q) ==
    /\ scope = <<>>
    /\ pipelines[q].live
    /\ Record(Op("with_pipeline", <<q>>), EnterCalls(q))
    /\ UNCHANGED <<ctxVars, resVars, overflow_checks, focus>>

\* the pipeline whose scope is running, 0 when none is
Applied ==
    IF scope # <<>> /\ scope[Len(scope)][1] = "with_pipeline"
    THEN scope[Len(scope)][2] ELSE 0

\* AttribCalls, taking the buffer at the attribute's own position
AttribCallsByPosition(d, i, vertexBuffers) ==
    IF i >= Len(vertexBuffers) THEN <<Call("panic", <<>>)>>
    ELSE << Call("bind_buffer", <<ARRAY_BUFFER, buffers[vertexBuffers[i + 1]].buffer>>),
            Call("vertex_attrib_pointer",
                 <<i, d.size, d.ty, d.normalized, d.stride, d.offset>>),
            Call("enable_vertex_attrib_array", <<i>>) >>

\* the calls that declare attribute i of the applied pipeline
AttribCalls(d, i, vertexBuffers) ==
    IF d.buffer_index >= Len(vertexBuffers) THEN <<Call("panic", <<>>)>>
    ELSE << Call("bind_buffer",
                 <<ARRAY_BUFFER, buffers[vertexBuffers[d.buffer_index + 1]].buffer>>),
            Call("vertex_attrib_pointer",
                 <<i, d.size, d.ty, d.normalized, d.stride, d.offset>>),
            Call("enable_vertex_attrib_array", <<i>>) >>

RECURSIVE BindingCalls(_, _, _)
BindingCalls(attrs, i, vertexBuffers) ==
    IF i >= Len(attrs) THEN <<>>
    ELSE AttribCalls(attrs[i + 1], i, vertexBuffers)
         \o BindingCalls(attrs, i + 1, vertexBuffers)

\* apply_bindings of the Drawable; indexBuffer is a handle or None
apply_bindings(vertexBuffers, indexBuffer) ==
    LET calls == BindingCalls(pipelines[Applied].vertex_attributes, 0, vertexBuffers)
                 \o (IF indexBuffer = None THEN <<>>
                     ELSE <<Call("bind_buffer",
                                 <<ELEMENT_ARRAY_BUFFER, buffers[indexBuffer].buffer>>)>>)
        done == UntilPanic(calls)
    IN  /\ Applied # 0
        /\ \A i \in 1..Len(vertexBuffers) : buffers[vertexBuffers[i]].live
        /\ indexBuffer # None => buffers[indexBuffer].live
        /\ Record(Op("apply_bindings",
                     <<vertexBuffers, indexBuffer,
                       IF Len(done) = Len(calls) THEN "Ok" ELSE "panic">>),
                  done)
        /\ UNCHANGED <<ctxVars, resVars, overflow_checks, focus>>

\* ExitCalls, sparing the last attribute
RECURSIVE ExitCallsButLast(_)
ExitCallsButLast(n) ==
    IF n <= 1 THEN <<>>
    ELSE ExitCallsButLast(n - 1) \o <<Call("disable_vertex_attrib_array", <<n - 2>>)>>

\* the calls that leave the scope of a pipeline with n attributes
RECURSIVE ExitCalls(_)
ExitCalls(n) ==
    IF n = 0 THEN <<>>
    ELSE ExitCalls(n - 1) \o <<Call("disable_vertex_attrib_array", <<n - 1>>)>>

\* the closure has returned: the scope is left
with_pipeline_return ==
    /\ Applied # 0
    /\ Record(Op("with_pipeline_return", <<Applied>>),
              ExitCalls(Len(pipelines[Applied].vertex_attributes)))
    /\ UNCHANGED <<ctxVars, resVars, overflow_checks, focus>>

----------------------------------------------------------------------------
(* The specifications.                                                     *)

\* everything but the scenario and the build profile
InitCommon ==
    /\ ContextInit
    /\ gl = DeviceInit
    /\ buffers = [h \in HandleIds |-> NoBuffer]
    /\ programs = [p \in ProgramIds |-> NoProgram]
    /\ pipelines = [q \in PipelineIds |-> NoPipeline]
    /\ arc_strong = [p \in ProgramIds |-> 0]
    /\ textures = [t \in TextureIds |-> NoTexture]
    /\ vaos = [a \in VaoIds |-> NoVao]
    /\ op = Op("new", <<>>)
    /\ emitted = <<>>
    /\ runCalls = 0
    /\ deleted = [k \in {"buffer", "program", "texture", "shader", "vertex_array"} |->
                      [n \in DeviceNames |-> 0]]
    /\ uploaded = [h \in 1..MaxHandles |-> 0]
    /\ scope = <<>>
    /\ trail = <<>>
    /\ saved = <<"none">>

\* No operation of the context depends on the build profile.
Init == InitCommon /\ focus \in Scenarios /\ overflow_checks = FALSE

\* The context alone.  Native objects are passed by name: any buffer or
\* program name, and for bind_any_buffer any handle, of either type.
AnyHandles ==
    {BufferHandle(b, ty, 1) : b \in NativeIds, ty \in {ARRAY_BUFFER, ELEMENT_ARRAY_BUFFER}}

Next ==
    \/ save
    \/ restore
    \/ \E f \in BlendFuncs : set_blend_func(f[1], f[2])
    \/ \E enabled \in BOOLEAN : set_blend(enabled)
    \/ \E enabled \in BOOLEAN : set_depth_write(enabled)
    \/ \E m \in ColorMasks : set_color_write(m[1], m[2], m[3], m[4])
    \/ \E program \in NativeIds : use_program(program)
    \/ unuse_program
    \/ \E buffer \in NativeIds : bind_array_buffer(buffer)
    \/ unbind_array_buffer
    \/ \E buffer \in NativeIds : bind_index_buffer(buffer)
    \/ unbind_index_buffer
    \/ \E handle \in AnyHandles : bind_any_buffer(handle)
    \/ \E color \in Colors : set_clear_color(color)
    \/ \E v \in Viewports : set_viewport(v[1], v[2], v[3], v[4])
    \/ \E unit \in 0..TextureUnits : invalidate_texture(unit)
    \/ invalidate_index_buffer
    \/ invalidate_array_buffer
    \/ flush_state

Spec == Init /\ [][Next]_vars

\* The context for as long as neither restore nor an invalidation is called.
NextPlain ==
    \/ save
    \/ \E f \in BlendFuncs : set_blend_func(f[1], f[2])
    \/ \E enabled \in BOOLEAN : set_blend(enabled)
    \/ \E enabled \in BOOLEAN : set_depth_write(enabled)
    \/ \E m \in ColorMasks : set_color_write(m[1], m[2], m[3], m[4])
    \/ \E program \in NativeIds : use_program(program)
    \/ unuse_program
    \/ \E buffer \in NativeIds : bind_array_buffer(buffer)
    \/ unbind_array_buffer
    \/ \E buffer \in NativeIds : bind_index_buffer(buffer)
    \/ unbind_index_buffer
    \/ \E handle \in AnyHandles : bind_any_buffer(handle)
    \/ \E color \in Colors : set_clear_color(color)
    \/ \E v \in Viewports : set_viewport(v[1], v[2], v[3], v[4])
    \/ flush_state
    \/ \E mode \in DrawModes : draw_arrays(mode, 0, 3)
    \/ clear(COLOR_BUFFER_BIT)

SpecPlain == Init /\ [][NextPlain]_vars

\* The draw calls and clear among the operations that leave state pending:
\* blending and the array buffer binding stand for the cached fields.
InitDraw ==
    /\ InitCommon
    /\ focus = {"blend_enabled", "bound_array_buffer"}
    /\ overflow_checks = FALSE

NextDraw ==
    \/ save
    \/ restore
    \/ \E enabled \in BOOLEAN : set_blend(enabled)
    \/ \E buffer \in NativeIds : bind_array_buffer(buffer)
    \/ invalidate_array_buffer
    \/ flush_state
    \/ \E mode \in DrawModes, count \in Counts : draw_elements(mode, count, UNSIGNED_SHORT, 0)
    \/ \E mode \in DrawModes, count \in {0, 3} : draw_arrays(mode, 0, count)
    \/ clear(COLOR_BUFFER_BIT)

SpecDraw == InitDraw /\ [][NextDraw]_vars

\* Saving and restoring around mutators, invalidations and flushes, with a
\* stack deep enough for two saved states to differ.
InitStack ==
    /\ InitCommon
    /\ focus = {"state_stack", "blend_enabled", "bound_array_buffer"}
    /\ overflow_checks = FALSE

NextStack ==
    \/ save
    \/ restore
    \/ \E enabled \in BOOLEAN : set_blend(enabled)
    \/ \E buffer \in NativeIds : bind_array_buffer(buffer)
    \/ invalidate_array_buffer
    \/ flush_state

SpecStack == InitStack /\ [][NextStack]_vars

\* save(); S; restore(); flush_state().  ManagedContext::new leaves the shadow
\* of the blend function, the viewport and the write masks different from the
\* device, so a program that wants a sound shadow sets them first, in this
\* order; the other operations run once that is done or was left out.
InitRound ==
    /\ InitCommon
    /\ focus = {"saved", "blend_enabled", "bound_array_buffer", "bound_textures",
                "blend_func", "viewport", "depth_write", "color_write"}
    /\ overflow_checks = FALSE

NextRound ==
    \/ op.name = "new" /\ \E f \in BlendFuncs : set_blend_func(f[1], f[2])
    \/ op.name = "set_blend_func" /\ \E v \in Viewports : set_viewport(v[1], v[2], v[3], v[4])
    \/ op.name = "set_viewport" /\ set_depth_write(TRUE)
    \/ op.name = "set_depth_write" /\ set_color_write(TRUE, TRUE, TRUE, TRUE)
    \/ /\ op.name \notin {"set_blend_func", "set_viewport", "set_depth_write"}
       /\ \/ save
          \/ restore
          \/ \E enabled \in BOOLEAN : set_blend(enabled)
          \/ \E buffer \in NativeIds : bind_array_buffer(buffer)
          \/ invalidate_array_buffer
          \/ invalidate_texture(0)
          \/ flush_state

SpecRound == InitRound /\ [][NextRound]_vars

\* The name the device hands out next, None when it has none left or the
\* creation fails.  Names are interchangeable, so the least free one stands
\* for any of them.
FreshName(used) ==
    IF DeviceNames \ used = {} THEN None
    ELSE CHOOSE n \in DeviceNames \ used : \A m \in DeviceNames \ used : n <= m

\* The context's buffer bindings together with the buffers' own operations.
InitBind ==
    /\ InitCommon
    /\ focus = {"bound_array_buffer", "bound_element_buffer"}
    /\ overflow_checks = FALSE

NextBind ==
    \/ \E h \in HandleIds, b \in {None, FreshName(gl.buffers)} : array_buffer(h, 1, b)
    \/ \E h \in HandleIds, b \in {None, FreshName(gl.buffers)} : index_buffer(h, 1, b)
    \/ \E h \in HandleIds : realloc(h, 1)
    \/ \E h \in HandleIds : update(h, 0, 1)
    \/ \E h \in HandleIds : drop_buffer(h)
    \/ \E h \in LiveHandles : bind_array_buffer(buffers[h].buffer)
    \/ unbind_array_buffer
    \/ \E h \in LiveHandles : bind_index_buffer(buffers[h].buffer)
    \/ unbind_index_buffer
    \/ \E h \in LiveHandles : bind_any_buffer(buffers[h])
    \/ \E h \in LiveHandles, target \in {ARRAY_BUFFER, ELEMENT_ARRAY_BUFFER} :
           BindableBuffer_bind(h, target)
    \/ invalidate_index_buffer
    \/ invalidate_array_buffer
    \/ flush_state

SpecBind == InitBind /\ [][NextBind]_vars

\* One buffer under either build profile: its creation, uploads and writes.
InitCap ==
    /\ InitCommon
    /\ focus = {}
    /\ overflow_checks \in BOOLEAN

NextCap ==
    \/ \E n \in 0..MaxLen, b \in DeviceNames \cup {None} : array_buffer(1, n, b)
    \/ \E n \in 0..MaxLen, b \in DeviceNames \cup {None} : index_buffer(1, n, b)
    \/ \E n \in 0..MaxLen : realloc(1, n)
    \/ \E offset \in (-MaxOffset)..MaxOffset, n \in 0..MaxLen : update(1, offset, n)
    \/ drop_buffer(1)

SpecCap == InitCap /\ [][NextCap]_vars

\* The lifetime of the buffers: handles are created, cloned and dropped.
InitOwn ==
    /\ InitCommon
    /\ focus = {}
    /\ overflow_checks = FALSE

NextOwn ==
    \/ \E h \in HandleIds, b \in DeviceNames \cup {None} : array_buffer(h, 1, b)
    \/ \E h \in HandleIds, b \in DeviceNames \cup {None} : index_buffer(h, 1, b)
    \/ \E h, h2 \in HandleIds : clone_buffer(h, h2)
    \/ \E h \in HandleIds : drop_buffer(h)

SpecOwn == InitOwn /\ [][NextOwn]_vars

\* what a compilation can come to: success, or its first failure
Outcomes ==
    {<<TRUE, TRUE, TRUE>>, <<FALSE, TRUE, TRUE>>, <<TRUE, FALSE, TRUE>>,
     <<TRUE, TRUE, FALSE>>}

\* Programs with the context's program binding.
InitProg ==
    /\ InitCommon
    /\ focus = {"program"}
    /\ overflow_checks = FALSE

NextProg ==
    \/ \E p \in ProgramIds, program \in {None, FreshName(gl.programs)},
          vs \in {None, FreshName(gl.shaders)}, ok \in Outcomes :
           \E fs \in {None, FreshName(gl.shaders \cup {vs})} :
               ShaderProgram_new(p, program, vs, fs, ok[1], ok[2], ok[3])
    \/ \E p \in ProgramIds, upload \in UniformCalls, loc \in {None, 1} :
           set_uniform(p, upload, loc)
    \/ \E p \in ProgramIds : drop_program(p)
    \/ \E p \in LivePrograms : use_program(programs[p].program)
    \/ unuse_program
    \/ flush_state

SpecProg == InitProg /\ [][NextProg]_vars

\* Pipelines and the programs they share; every compilation succeeds.
InitPipe ==
    /\ InitCommon
    /\ focus = {}
    /\ overflow_checks = FALSE

NextPipe ==
    \/ \E p \in ProgramIds, program \in DeviceNames :
           ShaderProgram_new(p, program, 1, 2, TRUE, TRUE, TRUE)
    \/ \E p \in ProgramIds : drop_program(p)
    \/ \E q \in PipelineIds, p \in ProgramIds : RenderPipeline_new(q, p)
    \/ \E q, q2 \in PipelineIds : clone_pipeline(q, q2)
    \/ \E q \in PipelineIds : drop_pipeline(q)

SpecPipe == InitPipe /\ [][NextPipe]_vars

\* Pipelines applied to draw, as src/examples do it: a vertex buffer, a second
\* vertex buffer or an index buffer, and two programs are created, the pipeline of each program is
\* built step by step, and the pipelines are applied, bound and drawn with.
\* Pipeline 2 gets at most one attribute.  The closure has the context
\* borrowed: it reaches the Drawable's operations only.
InitScope ==
    /\ InitCommon
    /\ focus = {}
    /\ overflow_checks = FALSE

VertexBufferLists ==
    {vbs \in UNION {[1..n -> HandleIds] : n \in 1..2} :
        \A i \in 1..Len(vbs) : buffers[vbs[i]].live /\ buffers[vbs[i]].ty = ARRAY_BUFFER}

IndexBuffers ==
    {None} \cup {h \in LiveHandles : buffers[h].ty = ELEMENT_ARRAY_BUFFER}

NextScope ==
    \/ \E h \in 1..2 : (h = 2 => buffers[1].live) /\ array_buffer(h, 1, FreshName(gl.buffers))
    \/ buffers[1].live /\ index_buffer(2, 1, FreshName(gl.buffers))
    \/ \E p \in 1..2 :
           /\ buffers[2].live
           /\ p = 2 => programs[1].live
           /\ ShaderProgram_new(p, FreshName(gl.programs), 1, 2, TRUE, TRUE, TRUE)
    \/ \E q \in 1..2 :
           /\ programs[2].live
           /\ q = 2 => pipelines[1].live
           /\ RenderPipeline_new(q, q)
    \/ \E q \in 1..2, attr \in {d \in Descriptors : d.size = 2} :
           /\ pipelines[2].live
           /\ q = 2 => pipelines[2].vertex_attributes = <<>>
           /\ with_vertex_attribute(q, attr)
    \/ pipelines[2].live /\ with_blend(1, TRUE)
    \/ pipelines[2].live /\ with_stencil(2, <<"Some", StencilStateDefault>>)
    \/ \E q \in 1..2 : pipelines[2].live /\ with_pipeline(q)
    \/ \E vbs \in VertexBufferLists, ib \in IndexBuffers : apply_bindings(vbs, ib)
    \/ Applied # 0 /\ draw_arrays(Triangles, 0, 3)
    \/ with_pipeline_return

SpecScope == InitScope /\ [][NextScope]_vars

\* Vertex arrays bound around closures that draw, declare attributes, create
\* and drop vertex arrays and bind again.  A vertex array that is bound
\* around a running closure is borrowed and outlives it.
InitVa ==
    /\ InitCommon
    /\ focus = {}
    /\ overflow_checks = FALSE

NextVa ==
    \/ \E a \in VaoIds : VertexArrayObject_new(a, FreshName(gl.vertex_arrays))
    \/ \E a \in VaoIds : ~BorrowedVao(a) /\ drop_vao(a)
    \/ \E a \in VaoIds, index \in 0..1 : attrib_pointer(a, index, 2, FLOAT, FALSE, 8, 0)
    \/ \E a \in VaoIds, index \in 0..1 : enable_attrib(a, index)
    \/ \E a \in VaoIds : bind_vertex_array_with(a)
    \/ draw_arrays(Triangles, 0, 3)
    \/ clear(COLOR_BUFFER_BIT)
    \/ bind_vertex_array_with_return

SpecVa == InitVa /\ [][NextVa]_vars

\* Two pipelines, the first taken through its builder.
InitBuild ==
    /\ InitCommon
    /\ focus = {}
    /\ overflow_checks = FALSE

NextBuild ==
    \/ \E p \in 1..2 :
           /\ p = 2 => programs[1].live
           /\ ShaderProgram_new(p, FreshName(gl.programs), 1, 2, TRUE, TRUE, TRUE)
    \/ \E q \in 1..2 :
           /\ programs[2].live
           /\ q = 1 => pipelines[2].live
           /\ RenderPipeline_new(q, q)
    \/ \E attr \in {d \in Descriptors : d.size = 2} : with_vertex_attribute(1, attr)
    \/ \E enabled \in BOOLEAN : with_blend(1, enabled)
    \/ \E f \in BlendFuncs : with_blend_func(1, f[1], f[2])
    \/ \E enabled \in BOOLEAN : with_depth(1, enabled)
    \/ \E enabled \in BOOLEAN : with_depth_write(1, enabled)
    \/ \E m \in {<<TRUE, TRUE, TRUE, TRUE>>, <<TRUE, FALSE, TRUE, FALSE>>} :
           with_color_write(1, m[1], m[2], m[3], m[4])
    \/ \E stencil \in Stencils : with_stencil(1, stencil)
    \/ drop_pipeline(1)

SpecBuild == InitBuild /\ [][NextBuild]_vars

\* One pipeline applied to draw, the operations of its scope followed.
InitTrail ==
    /\ InitCommon
    /\ focus = {"scope"}
    /\ overflow_checks = FALSE

NextTrail ==
    \/ array_buffer(1, 1, FreshName(gl.buffers))
    \/ buffers[1].live /\ ShaderProgram_new(1, FreshName(gl.programs), 1, 2, TRUE, TRUE, TRUE)
    \/ RenderPipeline_new(1, 1)
    \/ \E attr \in {d \in Descriptors : d.size = 2} : with_vertex_attribute(1, attr)
    \/ with_pipeline(1)
    \/ \E vbs \in VertexBufferLists : apply_bindings(vbs, None)
    \/ Applied # 0 /\ draw_arrays(Triangles, 0, 3)
    \/ with_pipeline_return

SpecTrail == InitTrail /\ [][NextTrail]_vars

\* The textures alone, through both of their phases.
InitTex ==
    /\ InitCommon
    /\ focus = {}
    /\ overflow_checks = FALSE

NextTex ==
    \/ \E t \in TextureIds, texture \in {None, FreshName(gl.texture_objects)} :
           TextureHandle_new(t, texture)
    \/ \E t \in TextureIds : set_border_color(t)
    \/ \E t \in TextureIds, width, height \in 1..MaxDim : allocate_2d_data(t, width, height)
    \/ \E t \in TextureIds : generate_mipmaps(t)
    \/ \E t \in TextureIds, x_offset, y_offset \in 0..MaxDim, width, height \in 1..MaxDim :
           write_subimage(t, x_offset, y_offset, width, height)
    \/ \E t \in TextureIds : drop_texture(t)

SpecTex == InitTex /\ [][NextTex]_vars

\* The creation and destruction of the four kinds of native object, one
\* wrapper of each kind; the device may refuse any creation.  Shaders compile
\* and programs link.
InitCreate ==
    /\ InitCommon
    /\ focus = {}
    /\ overflow_checks = FALSE

NextCreate ==
    \/ \E b \in {None, FreshName(gl.buffers)} : array_buffer(1, 1, b)
    \/ \E b \in {None, FreshName(gl.buffers)} : index_buffer(1, 1, b)
    \/ \E texture \in {None, FreshName(gl.texture_objects)} : TextureHandle_new(1, texture)
    \/ \E program \in {None, FreshName(gl.programs)}, vs \in {None, FreshName(gl.shaders)} :
           \E fs \in {None, FreshName(gl.shaders \cup {vs})} :
               ShaderProgram_new(1, program, vs, fs, TRUE, TRUE, TRUE)
    \/ \E vao \in {None, FreshName(gl.vertex_arrays)} : VertexArrayObject_new(1, vao)
    \/ drop_buffer(1)
    \/ drop_texture(1)
    \/ drop_program(1)
    \/ drop_vao(1)

SpecCreate == InitCreate /\ [][NextCreate]_vars

----------------------------------------------------------------------------
(* The state cache: claims C1 to C4.                                       *)

\* the shadow field a mutator call is about
FieldOf(o) ==
    CASE o.name = "set_blend" -> "blend_enabled"
      [] o.name = "set_blend_func" -> "blend_func"
      [] o.name = "set_depth_write" -> "depth_write"
      [] o.name = "set_color_write" -> "color_write"
      [] o.name \in {"use_program", "unuse_program"} -> "program"
      [] o.name \in {"bind_array_buffer", "unbind_array_buffer"} -> "bound_array_buffer"
      [] o.name \in {"bind_index_buffer", "unbind_index_buffer"} -> "bound_element_buffer"
      [] o.name = "bind_any_buffer" ->
           IF o.args[1] = ARRAY_BUFFER THEN "bound_array_buffer" ELSE "bound_element_buffer"
      [] o.name = "set_clear_color" -> "clear_color"
      [] o.name = "set_viewport" -> "viewport"

\* the value a mutator call requests, as the device sees it
RequestOf(o) ==
    CASE o.name \in {"set_blend", "set_depth_write", "use_program",
                     "bind_array_buffer", "bind_index_buffer", "set_clear_color"} -> o.args[1]
      [] o.name \in {"unuse_program", "unbind_array_buffer", "unbind_index_buffer"} -> None
      [] o.name = "bind_any_buffer" -> o.args[2]
      [] OTHER -> o.args

Bindings == {"bound_array_buffer", "bound_element_buffer", "program"}

\* the same value as the shadow holds it
ShadowOf(f, v) == IF f \in Bindings THEN Known(v) ELSE v

\* the device's value of what a shadow field mirrors
DeviceValue(d, f) ==
    CASE f = "bound_array_buffer" -> d.array_buffer
      [] f = "bound_element_buffer" -> d.element_buffer
      [] f = "blend_enabled" -> d.blend
      [] f = "blend_func" -> d.blend_func
      [] f = "clear_color" -> d.clear_color
      [] f = "depth_enabled" -> d.depth_test
      [] f = "depth_write" -> d.depth_mask
      [] f = "color_write" -> d.color_mask
      [] f = "program" -> d.program
      [] f = "viewport" -> d.viewport

\* the shadow field a device call is about
CallField(c) ==
    CASE c.f = "bind_buffer" ->
           IF c.a[1] = ARRAY_BUFFER THEN "bound_array_buffer" ELSE "bound_element_buffer"
      [] c.f \in {"active_texture", "bind_texture"} -> "bound_textures"
      [] c.f \in {"enable", "disable"} ->
           IF c.a[1] = BLEND THEN "blend_enabled" ELSE "depth_enabled"
      [] c.f = "blend_func" -> "blend_func"
      [] c.f = "clear_color" -> "clear_color"
      [] c.f = "color_mask" -> "color_write"
      [] c.f = "depth_mask" -> "depth_write"
      [] c.f = "use_program" -> "program"
      [] c.f = "viewport" -> "viewport"
      [] OTHER -> "none"

C2_MutatorStep ==
    [][op'.name \in Mutators =>
         LET f == FieldOf(op')
             v == ShadowOf(f, RequestOf(op'))
         IN  /\ state_stack' = state_stack
             /\ IF last_flushed_state[f] = v
                THEN /\ emitted' = <<>>
                     /\ current_state' = current_state
                     /\ last_flushed_state' = last_flushed_state
                ELSE /\ Len(emitted') = 1
                     /\ CallField(emitted'[1]) = f
                     /\ DeviceValue(gl', f) = RequestOf(op')
                     /\ current_state' = [current_state EXCEPT ![f] = v]
                     /\ last_flushed_state' = [last_flushed_state EXCEPT ![f] = v]
    ]_vars

\* a viewport that was set and reached the device, both shadows holding it
C2_Witness ==
    /\ op.name = "set_viewport"
    /\ Len(emitted) = 1
    /\ state_stack = <<>>
    /\ current_state.viewport = <<0, 0, 2, 2>>
    /\ last_flushed_state.viewport = <<0, 0, 2, 2>>
    /\ gl.viewport = <<0, 0, 2, 2>>

InvalidateOf(f) ==
    CASE f = "bound_array_buffer" -> "invalidate_array_buffer"
      [] f = "bound_element_buffer" -> "invalidate_index_buffer"

BufferTarget(f) == IF f = "bound_array_buffer" THEN ARRAY_BUFFER ELSE ELEMENT_ARRAY_BUFFER

\* the calls contain the select of unit u followed at once by the bind of v
BindsTexture(calls, u, v) ==
    \E i \in 1..(Len(calls) - 1) :
        /\ IsCall(calls[i], "active_texture", <<TEXTURE0 + u>>)
        /\ IsCall(calls[i + 1], "bind_texture", <<TEXTURE_2D, v>>)

\* C3: a flush_state that finds a binding invalidated (array buffer, index
\* buffer, texture of unit u), or that directly follows its invalidate call,
\* issues the device bind for it with the current value, whatever value was
\* cached before.
C3_FlushAfterInvalidate ==
    [][op'.name = "flush_state" =>
         /\ \A f \in {"bound_array_buffer", "bound_element_buffer"} :
                (last_flushed_state[f] = Unknown \/ op.name = InvalidateOf(f)) =>
                    \E i \in 1..Len(emitted') :
                        IsCall(emitted'[i], "bind_buffer",
                               <<BufferTarget(f), assume_known(current_state[f])>>)
         /\ \A u \in 0..(TextureUnits - 1) :
                (\/ last_flushed_state.bound_textures[u] = Unknown
                 \/ (op.name = "invalidate_texture" /\ op.args = <<u>>)) =>
                    BindsTexture(emitted', u, assume_known(current_state.bound_textures[u]))
    ]_vars

\* a flush that re-issued the bind of a texture unit: the current binding of a
\* unit is always the one cached before the invalidation
C3_Witness ==
    /\ op.name = "flush_state"
    /\ \E u \in 0..(TextureUnits - 1) : BindsTexture(emitted, u, None)
    /\ InvalidUnits(last_flushed_state) = {}

PlainFields == Fields \ {"bound_textures"}

Indices(calls, names) == {i \in 1..Len(calls) : calls[i].f \in names}

\* C4: flush_state issues a device call for exactly the shadow fields whose
\* current value differs from the last-flushed one or whose last-flushed value
\* is Invalidated, each carrying the current value, and for no other field;
\* when it returns the last-flushed state is the current state, all Known.
C4_FlushExactlyDiffering ==
    [][op'.name = "flush_state" =>
         LET D == {f \in PlainFields : last_flushed_state[f] # current_state[f]}
             U == {u \in 0..(TextureUnits - 1) :
                      last_flushed_state.bound_textures[u] # current_state.bound_textures[u]}
             plain == {i \in 1..Len(emitted') : CallField(emitted'[i]) # "bound_textures"}
         IN  /\ op'.args = <<>>
             /\ {CallField(emitted'[i]) : i \in plain} = D
             /\ Cardinality(plain) = Cardinality(D)
             /\ \A f \in D :
                    DeviceValue(gl', f) =
                        (IF f \in Bindings THEN assume_known(current_state[f])
                         ELSE current_state[f])
             /\ Cardinality(Indices(emitted', {"active_texture"})) = Cardinality(U)
             /\ Cardinality(Indices(emitted', {"bind_texture"})) = Cardinality(U)
             /\ \A u \in U :
                    BindsTexture(emitted', u, assume_known(current_state.bound_textures[u]))
             /\ current_state' = current_state
             /\ last_flushed_state' = current_state
             /\ \A f \in Bindings : IsKnown(last_flushed_state'[f])
             /\ \A u \in 0..(TextureUnits - 1) : IsKnown(last_flushed_state'.bound_textures[u])
    ]_vars

\* a flush that had two fields to issue and left a third alone
C4_Witness ==
    /\ op.name = "flush_state"
    /\ Len(emitted) = 2
    /\ last_flushed_state = current_state

----------------------------------------------------------------------------
(* Buffers, programs and pipelines: claims C5 to C10.                      *)

\* when bind_array_buffer(b) or bind_index_buffer(b) has returned, b is the
\* buffer bound on the device
BindReturnsBound ==
    /\ op.name = "bind_array_buffer" => gl.array_buffer = op.args[1]
    /\ op.name = "bind_index_buffer" => gl.element_buffer = op.args[1]

\* C5: over the operations of the context and of BufferHandle, a last-flushed
\* buffer binding Known(b) is the device's binding of that target; hence b is
\* bound on the device when bind_array_buffer(b) or bind_index_buffer(b) has
\* returned.
C5_BufferShadowSound ==
    /\ \A f \in {"bound_array_buffer", "bound_element_buffer"} :
           IsKnown(last_flushed_state[f]) =>
               DeviceValue(gl, f) = assume_known(last_flushed_state[f])
    /\ BindReturnsBound

\* when use_program(p) has returned, p is the program installed on the device
UseReturnsInstalled ==
    op.name = "use_program" => gl.program = op.args[1]

\* C6: over the operations of the context and of ShaderProgram, a last-flushed
\* program Known(p) is the device's active program; hence p is installed on
\* the device when use_program(p) has returned.
C6_ProgramShadowSound ==
    /\ IsKnown(last_flushed_state.program) =>
           gl.program = assume_known(last_flushed_state.program)
    /\ UseReturnsInstalled

\* C7: update(offset, data) at a byte offset >= 0 fails with the assertion's
\* panic when offset + len(data) > capacity, having issued no device call, and
\* succeeds, binding the buffer and writing the data, when
\* offset + len(data) <= capacity, the boundary included.
C7_UpdateBounds ==
    [][(op'.name = "update" /\ op'.args[2] >= 0) =>
         LET h == op'.args[1]
             offset == op'.args[2]
             n == op'.args[3]
             res == op'.args[4]
         IN  IF offset + n > buffers[h].capacity
             THEN res = "out of bounds write!" /\ emitted' = <<>>
             ELSE /\ res = "ok"
                  /\ emitted' = <<Call("bind_buffer", <<buffers[h].ty, buffers[h].buffer>>),
                                  Call("buffer_sub_data", <<buffers[h].ty, offset, n>>)>>
    ]_vars

\* a write that ends exactly at the capacity, and went through
C7_Witness ==
    /\ op.name = "update"
    /\ op.args[2] > 0
    /\ op.args[3] > 0
    /\ op.args[2] + op.args[3] = buffers[op.args[1]].capacity
    /\ op.args[4] = "ok"
    /\ Len(emitted) = 2

\* C8: the capacity of a handle is the length of the data of its creation or
\* of its last realloc, whichever came last; update leaves it as it is.
C8_CapacityIsLastUpload ==
    [][/\ \A h \in HandleIds : buffers'[h].live => buffers'[h].capacity = uploaded'[h]
       /\ op'.name = "update" => buffers' = buffers
    ]_vars

\* a write of fewer bytes than the capacity that a realloc had set
C8_Witness ==
    /\ op.name = "update"
    /\ op.args[4] = "ok"
    /\ op.args[3] > 0
    /\ op.args[3] < buffers[op.args[1]].capacity
    /\ buffers[op.args[1]].capacity = uploaded[op.args[1]]
    /\ buffers[op.args[1]].capacity = MaxLen

\* C9: over creations, clones and drops of BufferHandle, a native buffer is
\* owned by one handle only, is deleted once only, and is not deleted while a
\* live handle refers to it.
C9_BufferSingleOwner ==
    /\ \A h, h2 \in LiveHandles : h # h2 => buffers[h].buffer # buffers[h2].buffer
    /\ \A b \in DeviceNames : deleted.buffer[b] <= 1
    /\ \A h \in LiveHandles : buffers[h].buffer \in gl.buffers

\* the pipelines that hold the ShaderProgram of slot p
Holders(ps, p) == {q \in PipelineIds : ps[q].live /\ ps[q].program = p}

\* C10: destroying a pipeline while another one shares its ShaderProgram
\* issues no device call; destroying the last one deletes the native program;
\* no native program is deleted twice, or while a pipeline holds it.
C10_SharedProgramDeletedOnce ==
    [][/\ op'.name = "drop_pipeline" =>
            LET p == pipelines[op'.args[1]].program
            IN  IF Holders(pipelines', p) # {}
                THEN emitted' = <<>> /\ programs'[p] = programs[p]
                ELSE emitted' = <<Call("delete_program", <<programs[p].program>>)>>
       /\ \A n \in DeviceNames : deleted'.program[n] <= 1
       /\ \A q \in PipelineIds :
              pipelines'[q].live =>
                  /\ programs'[pipelines'[q].program].live
                  /\ programs'[pipelines'[q].program].program \in gl'.programs
    ]_vars

\* one of two pipelines that share a program was destroyed: no delete
C10_Witness ==
    /\ op.name = "drop_pipeline"
    /\ emitted = <<>>
    /\ \E q \in PipelineIds : pipelines[q].live /\ arc_strong[pipelines[q].program] = 1

----------------------------------------------------------------------------
(* Textures, creation failures, shader compilation, bind paths, the state  *)
(* stack and the draw calls: claims C11 to C20.                            *)

\* C11: destroying a texture issues exactly one delete of its native object,
\* in the Unallocated phase as in the Allocated one; allocate_2d_data issues
\* no delete and keeps the native object; no native texture is deleted twice,
\* is deleted while its wrapper lives, or outlives its wrapper.
C11_TextureDeletedOnce ==
    [][/\ op'.name = "drop_texture" =>
            emitted' = <<Call("delete_texture", <<textures[op'.args[1]].texture>>)>>
       /\ op'.name = "allocate_2d_data" =>
            /\ \A i \in 1..Len(emitted') : emitted'[i].f # "delete_texture"
            /\ textures'[op'.args[1]].live
            /\ textures'[op'.args[1]].texture = textures[op'.args[1]].texture
       /\ \A n \in DeviceNames : deleted'.texture[n] <= 1
       /\ gl'.texture_objects = {textures'[t].texture : t \in {u \in TextureIds : textures'[u].live}}
    ]_vars

\* a Texture2D was destroyed, after its TextureHandle had been allocated
C11_Witness ==
    /\ op.name = "drop_texture"
    /\ op.args[2] = TRUE
    /\ emitted # <<>>
    /\ gl.texture_objects = {}
    /\ \E n \in DeviceNames : deleted.texture[n] = 1

\* the dimensions the device holds for the texture of slot t
Dimensions(t) == gl.tex_size[textures[t].texture]

\* C12: write_subimage(x, y, w, h) on an allocated texture of W x H issues no
\* device upload when x + w > W or y + h > H, and issues the upload when the
\* rectangle lies inside.
C12_SubimageWithinBounds ==
    op.name = "write_subimage" =>
        LET t == op.args[1]
            outside == \/ op.args[2] + op.args[4] > Dimensions(t)[1]
                       \/ op.args[3] + op.args[5] > Dimensions(t)[2]
            uploads == {i \in 1..Len(emitted) : emitted[i].f = "tex_sub_image_2d"}
        IN  IF outside THEN uploads = {} ELSE Cardinality(uploads) = 1

\* C13: set_uniform_<T>(name, value) with a name the program does not have
\* (the location does not resolve) issues no uniform-upload device call.
C13_MissingUniformFatal ==
    (op.name = "set_uniform" /\ op.args[3] = None) =>
        \A i \in 1..Len(emitted) : emitted[i].f \notin UniformCalls

\* how a creation ended for its caller: "Ok", "Err" (a result the caller can
\* handle) or "panic"
CreationOutcome(o) ==
    CASE o.name \in {"array_buffer", "index_buffer"} -> o.args[3]
      [] o.name \in {"TextureHandle_new", "VertexArrayObject_new"} -> o.args[2]
      [] o.name = "ShaderProgram_new" ->
           IF o.args[2] = <<>> THEN "Ok"
           ELSE IF o.args[2] \in {<<"Cannot create program">>, <<"Cannot create shader">>}
           THEN "panic"
           ELSE "compile"

\* C14: when the device fails to create a buffer, a texture, a program (or one
\* of its shaders) or a vertex array, the creation returns an error to its
\* caller rather than panicking.
C14_CreationFailureRecoverable ==
    op.name \in {"array_buffer", "index_buffer", "TextureHandle_new",
                 "ShaderProgram_new", "VertexArrayObject_new"} =>
        CreationOutcome(op) # "panic"

\* the positions of the calls named f
Positions(calls, f) == {i \in 1..Len(calls) : calls[i].f = f}

\* the position of the creation of the shader of stage ty, 0 when there is none
CreatedAt(calls, ty) ==
    IF \E i \in 1..Len(calls) : calls[i].f = "create_shader" /\ calls[i].a[1] = ty
    THEN CHOOSE i \in 1..Len(calls) : calls[i].f = "create_shader" /\ calls[i].a[1] = ty
    ELSE 0

\* C15: ShaderProgram creation compiles the vertex stage, then the fragment
\* stage, then links.  A stage that fails to compile ends the call with that
\* stage's log, before any later stage is created or compiled and before the
\* link; a failed link ends the call with the program's log; a call that
\* ends with neither log had every status true.
C15_CompileThenLink ==
    [][op'.name = "ShaderProgram_new" =>
         LET calls == emitted'
             n == Len(calls)
             v == CreatedAt(calls, VERTEX_SHADER)
             f == CreatedAt(calls, FRAGMENT_SHADER)
         IN  /\ f # 0 => (v # 0 /\ v < f)
             /\ \A i \in Positions(calls, "compile_shader") :
                    (calls[i].a[1] = calls[v].a[2] /\ f # 0) => i < f
             /\ \A i \in Positions(calls, "link_program") :
                    /\ Cardinality(Positions(calls, "compile_shader")) = 2
                    /\ \A j \in Positions(calls, "compile_shader") : j < i
             /\ \A i \in Positions(calls, "get_shader_compile_status") :
                    IF calls[i].a[2]
                    THEN i < n /\ calls[i + 1].f = "attach_shader"
                    ELSE /\ i + 1 = n
                         /\ calls[n] = Call("get_shader_info_log", <<calls[i].a[1]>>)
                         /\ op'.args[2] = <<"shader log", calls[i].a[1]>>
             /\ \A i \in Positions(calls, "get_program_link_status") :
                    IF calls[i].a[2]
                    THEN op'.args[2] = <<>>
                    ELSE /\ i + 1 = n
                         /\ calls[n] = Call("get_program_info_log", <<calls[i].a[1]>>)
                         /\ op'.args[2] = <<"program log", calls[i].a[1]>>
    ]_vars

\* the fragment stage failed to compile after the vertex stage had compiled
C15_Witness ==
    /\ op.name = "ShaderProgram_new"
    /\ Len(op.args[2]) = 2
    /\ op.args[2][1] = "shader log"
    /\ CreatedAt(emitted, FRAGMENT_SHADER) # 0
    /\ op.args[2][2] = emitted[CreatedAt(emitted, FRAGMENT_SHADER)].a[2]
    /\ Positions(emitted, "link_program") = {}

\* C16: when ShaderProgram creation succeeds, every shader created by the
\* call has been detached from the program and then deleted, each once, and
\* the program is the only native object the call leaves alive.
C16_ShadersCleanedUp ==
    [][(op'.name = "ShaderProgram_new" /\ op'.args[2] = <<>>) =>
         LET calls == emitted'
             program == calls[1].a[1]
             made == {calls[i].a[2] : i \in Positions(calls, "create_shader")}
         IN  /\ calls[1].f = "create_program"
             /\ Cardinality(made) = 2
             /\ \A s \in made :
                    \E i, j \in 1..Len(calls) :
                        /\ i < j
                        /\ calls[i] = Call("detach_shader", <<program, s>>)
                        /\ calls[j] = Call("delete_shader", <<s>>)
                        /\ \A k \in Positions(calls, "create_shader") : k < i
                        /\ \A k \in Positions(calls, "detach_shader") :
                               calls[k].a[2] = s => k = i
                        /\ \A k \in Positions(calls, "delete_shader") :
                               calls[k].a[1] = s => k = j
             /\ \A s \in made : deleted'.shader[s] = 1
             /\ gl'.shaders = gl.shaders
             /\ gl'.attached = gl.attached
             /\ gl'.programs = gl.programs \cup {program}
             /\ program \notin gl.programs
    ]_vars

\* a creation that succeeded: its program lives, no shader does
C16_Witness ==
    /\ op.name = "ShaderProgram_new"
    /\ op.args[2] = <<>>
    /\ gl.shaders = {}
    /\ gl.attached = {}
    /\ gl.programs # {}
    /\ Cardinality(Positions(emitted, "delete_shader")) = 2

\* the binding targets at which buffer b is recorded, by the device or by
\* either shadow
RecordedAt(b) ==
    {ty \in {ARRAY_BUFFER, ELEMENT_ARRAY_BUFFER} :
        LET f == IF ty = ARRAY_BUFFER THEN "bound_array_buffer" ELSE "bound_element_buffer"
        IN  \/ DeviceValue(gl, f) = b
            \/ current_state[f] = Known(b)
            \/ last_flushed_state[f] = Known(b)}

\* C17: neither the device nor the shadow records a buffer at a binding point
\* other than the one of its declared kind, whichever bind path was taken.
C17_BindMatchesKind ==
    \A h \in LiveHandles : RecordedAt(buffers[h].buffer) \subseteq {buffers[h].ty}

\* C18: every texture bind the context issues comes directly after the call
\* that selects a unit N in 0..15 as the active one, and binds the texture the
\* current state holds for unit N.
C18_BindAfterSelect ==
    \A i \in Positions(emitted, "bind_texture") :
        /\ i > 1
        /\ emitted[i - 1].f = "active_texture"
        /\ emitted[i - 1].a[1] - TEXTURE0 \in 0..(TextureUnits - 1)
        /\ emitted[i].a =
               <<TEXTURE_2D,
                 assume_known(current_state.bound_textures[emitted[i - 1].a[1] - TEXTURE0])>>

\* a flush that bound the texture of the last unit
C18_Witness ==
    /\ op.name = "flush_state"
    /\ Positions(emitted, "bind_texture") # {}
    /\ \E i \in Positions(emitted, "active_texture") :
           emitted[i].a = <<TEXTURE0 + TextureUnits - 1>>

\* C19: restore() on an empty state stack panics and leaves the context as it
\* was; on a stack that holds a state it pops that state into the current
\* state.  Neither issues a device call.
C19_RestoreUnderflowPanics ==
    [][op'.name = "restore" =>
         /\ emitted' = <<>>
         /\ last_flushed_state' = last_flushed_state
         /\ IF state_stack = <<>>
            THEN /\ op'.args = <<"panic">>
                 /\ current_state' = current_state
                 /\ state_stack' = <<>>
            ELSE /\ op'.args = <<>>
                 /\ current_state' = state_stack[Len(state_stack)]
                 /\ state_stack' = SubSeq(state_stack, 1, Len(state_stack) - 1)
    ]_vars

\* a restore too many: a state was saved and restored, the next restore
\* panicked
C19_Witness ==
    /\ op = Op("restore", <<"panic">>)
    /\ state_stack = <<>>
    /\ current_state # last_flushed_state

\* C20: each draw_arrays, draw_elements and clear issues exactly one device
\* call, of its own name, carrying the arguments the caller gave, within the
\* operation; it issues no other call and leaves the current state, the
\* last-flushed state and the state stack as they were.
C20_DrawPassesThrough ==
    [][op'.name \in {"draw_arrays", "draw_elements", "clear"} =>
         /\ emitted' = <<Call(op'.name, op'.args)>>
         /\ UNCHANGED ctxVars
    ]_vars

\* the attribute indices a pipeline declares
Declared(q) == 0..(Len(pipelines[q].vertex_attributes) - 1)

\* the attribute indices enabled on the device, in any vertex array
Enabled == UNION {gl.attribs[v] : v \in VertexArrayNames}

\* C21: when the scope of a pipeline has been left, every attribute index the
\* pipeline declares is disabled on the device; and a draw inside the scope of
\* a pipeline finds no attribute index enabled but those the pipeline declares.
C21_AttributesTornDown ==
    /\ op.name = "with_pipeline_return" => Enabled \cap Declared(op.args[1]) = {}
    /\ (op.name = "draw_arrays" /\ Applied # 0) => Enabled \subseteq Declared(Applied)

\* the pipeline with one attribute draws with its attribute bound, next to a
\* pipeline with two
C21_Witness ==
    /\ op.name = "draw_arrays"
    /\ Applied = 2
    /\ Enabled = {0}
    /\ Len(pipelines[1].vertex_attributes) = 2

\* the stencil configuration of one face, in the calls from position i on
FaceConfigured(calls, i, face, mask, st, ops) ==
    {calls[j] : j \in {k \in i..Len(calls) : calls[k].a[1] = face}} =
    { Call("stencil_mask_separate", <<face, mask>>),
      Call("stencil_func_separate", <<face, st.func, st.sref, st.mask>>),
      Call("stencil_op_separate", <<face>> \o ops) }

\* C22: entering a pipeline-application scope issues, in every state and in
\* this order: blend enable and blend func, depth-test enable, colour-write
\* mask, depth-write mask, program bind, the bind of the one shared vertex
\* array, scissor enable, then the stencil mask, func and ops of each face when
\* the pipeline has a stencil descriptor and the stencil-test disable alone
\* when it has none.
C22_EnterSequence ==
    op.name = "with_pipeline" =>
        LET pl == pipelines[op.args[1]]
            st == pl.stencil_state
        IN  /\ Len(emitted) >= 9
            /\ SubSeq(emitted, 1, 8) =
                   << EnableCall(BLEND, pl.blend_enabled),
                      Call("blend_func", pl.blend_func),
                      EnableCall(DEPTH_TEST, pl.depth_enabled),
                      Call("color_mask", pl.color_write),
                      Call("depth_mask", <<pl.depth_write>>),
                      Call("use_program", <<programs[pl.program].program>>),
                      Call("bind_vertex_array", <<SharedVertexArray>>),
                      EnableCall(SCISSOR_TEST, pl.scissor_enabled) >>
            /\ IF st[1] = "None"
               THEN SubSeq(emitted, 9, Len(emitted)) = <<Call("disable", <<STENCIL_TEST>>)>>
               ELSE /\ Len(emitted) = 14
                    /\ FaceConfigured(emitted, 9, FRONT, st[2].front_mask, st[2].front,
                                      st[2].front_stencil_op)
                    /\ FaceConfigured(emitted, 9, BACK, st[2].back_mask, st[2].back,
                                      st[2].back_stencil_op)

\* the pipeline with a stencil descriptor has been applied: the stencil
\* calls follow the scissor call
C22_Witness ==
    /\ op = Op("with_pipeline", <<2>>)
    /\ pipelines[2].stencil_state[1] = "Some"
    /\ Len(emitted) = 14
    /\ emitted[8] = Call("disable", <<SCISSOR_TEST>>)
    /\ emitted[14].f = "stencil_op_separate"

\* the positions of the descriptors whose buffer slot the supplied vertex
\* buffers do not have
OutOfRange(attrs, vertexBuffers) ==
    {i \in 1..Len(attrs) : attrs[i].buffer_index >= Len(vertexBuffers)}

\* C23: apply_bindings takes the applied pipeline's descriptors in list
\* order: for the descriptor at position i (from 0) it binds the vertex buffer
\* in the descriptor's buffer slot, issues the attribute-pointer call for
\* index i with the descriptor's size, type, normalized, stride and offset, and
\* enables index i; after the last one it binds the index buffer if there is
\* one.  A descriptor whose buffer slot is not supplied is fatal: nothing is
\* issued for it or after it.
C23_ApplyBindings ==
    op.name = "apply_bindings" =>
        LET vertexBuffers == op.args[1]
            indexBuffer == op.args[2]
            attrs == pipelines[Applied].vertex_attributes
            bad == OutOfRange(attrs, vertexBuffers)
            n == IF bad = {} THEN Len(attrs)
                 ELSE (CHOOSE i \in bad : \A j \in bad : i <= j) - 1
        IN  /\ op.args[3] = IF bad = {} THEN "Ok" ELSE "panic"
            /\ Len(emitted) = 3 * n + (IF bad = {} /\ indexBuffer # None THEN 1 ELSE 0)
            /\ \A i \in 0..(n - 1) :
                   LET d == attrs[i + 1]
                   IN  /\ emitted[3 * i + 1] =
                              Call("bind_buffer",
                                   <<ARRAY_BUFFER,
                                     buffers[vertexBuffers[d.buffer_index + 1]].buffer>>)
                       /\ emitted[3 * i + 2] =
                              Call("vertex_attrib_pointer",
                                   <<i, d.size, d.ty, d.normalized, d.stride, d.offset>>)
                       /\ emitted[3 * i + 3] = Call("enable_vertex_attrib_array", <<i>>)
            /\ (bad = {} /\ indexBuffer # None) =>
                   emitted[Len(emitted)] =
                       Call("bind_buffer", <<ELEMENT_ARRAY_BUFFER, buffers[indexBuffer].buffer>>)

\* two attributes, the first on buffer slot 1 and the second on slot 0, bound
\* from two different buffers
C23_Witness ==
    /\ op.name = "apply_bindings"
    /\ op.args[3] = "Ok"
    /\ Len(op.args[1]) = 2
    /\ op.args[1][1] # op.args[1][2]
    /\ Len(pipelines[Applied].vertex_attributes) = 2
    /\ pipelines[Applied].vertex_attributes[1].buffer_index = 1
    /\ pipelines[Applied].vertex_attributes[2].buffer_index = 0

BuilderField(name) ==
    CASE name = "with_vertex_attribute" -> "vertex_attributes"
      [] name = "with_blend" -> "blend_enabled"
      [] name = "with_blend_func" -> "blend_func"
      [] name = "with_depth" -> "depth_enabled"
      [] name = "with_depth_write" -> "depth_write"
      [] name = "with_color_write" -> "color_write"
      [] name = "with_stencil" -> "stencil_state"

BuilderSteps ==
    {"with_vertex_attribute", "with_blend", "with_blend_func", "with_depth",
     "with_depth_write", "with_color_write", "with_stencil"}

\* C25: a builder step changes the field it is named after and leaves every
\* other field of the pipeline, the program and the attribute list among
\* them, as it was; with_vertex_attribute puts the new descriptor after the
\* ones the list has, so that a descriptor's index is the number of
\* descriptors added before it.  No operation but a builder step changes a
\* pipeline that exists.
C25_BuilderFrame ==
    [][ /\ op'.name \in BuilderSteps =>
             LET q == op'.args[1]
                 f == BuilderField(op'.name)
             IN  /\ \A g \in DOMAIN pipelines[q] \ {f} : pipelines'[q][g] = pipelines[q][g]
                 /\ \A r \in PipelineIds \ {q} : pipelines'[r] = pipelines[r]
                 /\ pipelines'[q][f] =
                        CASE f = "vertex_attributes" ->
                               Append(pipelines[q].vertex_attributes, op'.args[2])
                          [] f \in {"blend_func", "color_write"} ->
                               SubSeq(op'.args, 2, Len(op'.args))
                          [] OTHER -> op'.args[2]
        /\ op'.name \notin BuilderSteps =>
             \A q \in PipelineIds :
                 (pipelines[q].live /\ pipelines'[q].live) => pipelines'[q] = pipelines[q]
    ]_vars

\* a second descriptor, unlike the first, has been added to a pipeline whose
\* other fields were set before
C25_Witness ==
    /\ op.name = "with_vertex_attribute"
    /\ Len(pipelines[1].vertex_attributes) = 2
    /\ pipelines[1].vertex_attributes[2] = op.args[2]
    /\ pipelines[1].vertex_attributes[1] # op.args[2]
    /\ pipelines[1].blend_enabled
    /\ pipelines[1].stencil_state[1] = "Some"
    /\ pipelines[1].color_write = <<TRUE, FALSE, TRUE, FALSE>>

\* C26: the device's mipmap generation is called by generate_mipmaps alone:
\* no other texture operation (creation, set_border_color, allocate_2d_data,
\* write_subimage, destruction) issues it.
C26_MipmapsExplicit ==
    Positions(emitted, "generate_mipmap") # {} => op.name = "generate_mipmaps"

\* generate_mipmaps has regenerated the mipmaps of an allocated texture
C26_Witness ==
    /\ op.name = "generate_mipmaps"
    /\ textures[op.args[1]].allocated
    /\ Positions(emitted, "generate_mipmap") = {2}
    /\ gl.tex_size[textures[op.args[1]].texture] # <<0, 0>>

\* C27: bind_vertex_array_with binds the vertex array on the device and only
\* then runs the closure; when the closure has returned, whatever it did,
\* bind_vertex_array_with leaves the device with no vertex array bound.
C27_VertexArrayScoped ==
    [][ /\ op'.name = "bind_vertex_array_with" =>
             /\ emitted' = <<Call("bind_vertex_array", <<vaos[op'.args[1]].vao>>)>>
             /\ gl'.vertex_array = vaos[op'.args[1]].vao
             /\ scope' = Append(scope, <<"bind_vertex_array_with", op'.args[1]>>)
        /\ op'.name = "bind_vertex_array_with_return" =>
             /\ scope # <<>>
             /\ scope[Len(scope)] = <<"bind_vertex_array_with", op'.args[1]>>
             /\ scope' = SubSeq(scope, 1, Len(scope) - 1)
             /\ gl'.vertex_array = None
    ]_vars

\* the outer of two nested binds returns: its closure has drawn, the inner
\* bind has come and gone, and no vertex array is bound
C27_Witness ==
    /\ op.name = "bind_vertex_array_with_return"
    /\ scope = <<>>
    /\ runCalls = 2
    /\ gl.vertex_array = None
    /\ gl.attribs[vaos[op.args[1]].vao] = {0}

\* C28: in every reachable state of the context, those reached through save
\* and restore among them, a mutator called with the value v and followed at
\* once by flush_state leaves the device's value of the mutator's field equal
\* to v.
C28_MutatorThenFlush ==
    [][(op.name \in Mutators /\ op'.name = "flush_state") =>
           DeviceValue(gl', FieldOf(op)) = RequestOf(op)]_vars

\* C29: save pushes the current state on the stack and restore makes the state
\* pushed last the current one and pops it, so that the saved states come back
\* in the reverse of the order they were saved in; neither of them issues a
\* device call, changes the device or changes the last-flushed state.
C29_SaveRestoreLifo ==
    [][/\ op'.name = "save" =>
            /\ state_stack' = Append(state_stack, current_state)
            /\ current_state' = current_state
       /\ (op'.name = "restore" /\ op'.args = <<>>) =>
            /\ state_stack # <<>>
            /\ current_state' = state_stack[Len(state_stack)]
            /\ state_stack' = SubSeq(state_stack, 1, Len(state_stack) - 1)
       /\ op'.name \in {"save", "restore"} =>
            /\ emitted' = <<>>
            /\ gl' = gl
            /\ last_flushed_state' = last_flushed_state]_vars

\* restore has just popped the newer of two saved states that differ
C29_Witness ==
    /\ op.name = "restore" /\ op.args = <<>>
    /\ Len(state_stack) = 1
    /\ current_state.blend_enabled # state_stack[1].blend_enabled
    /\ current_state # last_flushed_state

\* C30: when save is called with the shadow sound and flushed, then any
\* mutators, invalidations and flushes run, then restore and at once
\* flush_state, every device field the shadow tracks holds the value it had
\* when save was called.
C30_RoundTrip ==
    saved[1] = "flushed" =>
        /\ \A f \in Fields \ {"bound_textures"} :
               DeviceValue(gl, f) = DeviceValue(saved[2], f)
        /\ gl.textures = saved[2].textures

\* the closing flush_state had the blending switch and the array buffer
\* binding to bring back
C30_Witness ==
    /\ saved[1] = "flushed"
    /\ op.name = "flush_state"
    /\ \E c \in 1..Len(emitted) : emitted[c].f \in {"enable", "disable"}
    /\ \E c \in 1..Len(emitted) : emitted[c].f = "bind_buffer"

\* C31: in a freshly constructed context both shadows say of every field what
\* the device holds by default, depth write and the four colour channels
\* enabled among them (so that a first set_depth_write(false) finds a
\* different value cached and issues its device call).
C31_FreshShadowMatchesDevice ==
    op.name = "new" =>
        /\ ShadowSound(current_state, gl)
        /\ ShadowSound(last_flushed_state, gl)

\* every binding of the state st is Known
AllKnown(st) ==
    /\ \A f \in Bindings : IsKnown(st[f])
    /\ \A u \in DOMAIN st.bound_textures : IsKnown(st.bound_textures[u])

\* C32: in every reachable state every binding of the current state and of
\* every state saved on the stack is Known, only last-flushed bindings being
\* ever invalidated, and flush_state never panics on an invalidated binding.
C32_CurrentAlwaysKnown ==
    /\ AllKnown(current_state)
    /\ \A i \in 1..Len(state_stack) : AllKnown(state_stack[i])
    /\ op # Op("flush_state", <<"panic">>)

\* the array buffer binding has just been invalidated with a buffer bound and
\* a state saved: the last-flushed binding is Unknown, the current one is not
C32_Witness ==
    /\ op.name = "invalidate_array_buffer"
    /\ last_flushed_state.bound_array_buffer = Unknown
    /\ current_state.bound_array_buffer \in {Known(b) : b \in NativeIds}
    /\ state_stack # <<>>

Invalidated(st, o) ==
    CASE o.name = "invalidate_array_buffer" -> [st EXCEPT !.bound_array_buffer = Unknown]
      [] o.name = "invalidate_index_buffer" -> [st EXCEPT !.bound_element_buffer = Unknown]
      [] o.name = "invalidate_texture" -> [st EXCEPT !.bound_textures[o.args[1]] = Unknown]

\* C34: an invalidation (of the array buffer, the index buffer, or the texture
\* unit u in 0..15) issues no device call and changes nothing but the
\* last-flushed entry it names, which becomes Unknown: the device, the current
\* state, the stack and every other last-flushed entry stay; and a buffer
\* bind mutator that finds its binding invalidated issues its device call,
\* with the value that was cached before as with any other.
C34_InvalidateFrame ==
    [][/\ (op'.name \in Invalidations /\ Returned(op')) =>
            /\ emitted' = <<>>
            /\ gl' = gl
            /\ current_state' = current_state
            /\ state_stack' = state_stack
            /\ last_flushed_state' = Invalidated(last_flushed_state, op')
       /\ (/\ op'.name \in Mutators
           /\ FieldOf(op') \in {"bound_array_buffer", "bound_element_buffer"}
           /\ last_flushed_state[FieldOf(op')] = Unknown) =>
            /\ emitted' = <<Call("bind_buffer",
                                 <<BufferTarget(FieldOf(op')), RequestOf(op')>>)>>
            /\ last_flushed_state'[FieldOf(op')] = Known(RequestOf(op'))
    ]_vars

\* the index buffer binding has just been invalidated with a buffer bound:
\* only the last-flushed entry forgot it, and a bind of that buffer comes next
C34_Witness ==
    /\ op.name = "invalidate_index_buffer"
    /\ emitted = <<>>
    /\ last_flushed_state.bound_element_buffer = Unknown
    /\ \E b \in NativeIds :
           /\ current_state.bound_element_buffer = Known(b)
           /\ gl.element_buffer = b
           /\ ENABLED bind_index_buffer(b)

\* C35: bind_any_buffer binds a buffer of the vertex kind to ARRAY_BUFFER and
\* one of the index kind to ELEMENT_ARRAY_BUFFER.  When the last-flushed
\* binding of that point is the buffer already, it issues no call and changes
\* no shadow; otherwise it issues the one bind and records the buffer in the
\* current and the last-flushed state.  The other binding point keeps its
\* shadows and its device binding.
C35_BindAnyDispatches ==
    [][op'.name = "bind_any_buffer" =>
         LET ty == op'.args[1]
             b == op'.args[2]
             f == IF ty = ARRAY_BUFFER THEN "bound_array_buffer" ELSE "bound_element_buffer"
             g == IF ty = ARRAY_BUFFER THEN "bound_element_buffer" ELSE "bound_array_buffer"
         IN  /\ IF last_flushed_state[f] = Known(b)
                THEN /\ emitted' = <<>>
                     /\ current_state' = current_state
                     /\ last_flushed_state' = last_flushed_state
                ELSE /\ emitted' = <<Call("bind_buffer", <<ty, b>>)>>
                     /\ DeviceValue(gl', f) = b
                     /\ current_state' = [current_state EXCEPT ![f] = Known(b)]
                     /\ last_flushed_state' = [last_flushed_state EXCEPT ![f] = Known(b)]
             /\ current_state'[g] = current_state[g]
             /\ last_flushed_state'[g] = last_flushed_state[g]
             /\ DeviceValue(gl', g) = DeviceValue(gl, g)
    ]_vars

\* an index buffer has been bound through bind_any_buffer while the vertex
\* binding point had nothing bound
C35_Witness ==
    /\ op.name = "bind_any_buffer"
    /\ op.args[1] = ELEMENT_ARRAY_BUFFER
    /\ Len(emitted) = 1
    /\ gl.element_buffer = op.args[2]
    /\ gl.array_buffer = None
    /\ last_flushed_state.bound_array_buffer = Known(None)

\* C36: at every draw call issued inside the closure of
\* bind_vertex_array_with(va, f), va is the vertex array bound on the device,
\* also when the closure has bound another vertex array around a closure of
\* its own, or has called attrib_pointer or enable_attrib, before it draws.
C36_BoundWhileDrawing ==
    (op.name = "draw_arrays" /\ scope # <<>>) =>
        gl.vertex_array = vaos[scope[Len(scope)][2]].vao

\* C37: update with a negative offset is rejected whatever the data: the
\* bounds check fails, under either build profile, and no device call is
\* issued; the offset converted to usize plus the length of the data never
\* wraps into the accepted range.
C37_NegativeOffsetRejected ==
    (op.name = "update" /\ op.args[2] < 0) =>
        /\ op.args[4] # "ok"
        /\ emitted = <<>>

\* C38: when the creation of a ShaderProgram fails, because a stage does not
\* compile or the program does not link, the program object and every shader
\* object created during the attempt have been deleted by the time the
\* failure reaches the caller.
C38_FailedCreationLeaksNothing ==
    (/\ op.name = "ShaderProgram_new"
     /\ op.args[2] # <<>>
     /\ op.args[2][1] \in {"shader log", "program log"}) =>
        \A i \in 1..Len(emitted) :
            /\ emitted[i].f = "create_program" => emitted[i].a[1] \notin gl.programs
            /\ emitted[i].f = "create_shader" => emitted[i].a[2] \notin gl.shaders

\* C39: the public builder can set every field of a pipeline's state
\* descriptor, scissor_enabled among them: RenderPipeline::new leaving it
\* false, a pipeline that has been built can be taken by a builder step to a
\* pipeline with scissor_enabled = true.
C39_ScissorSettable ==
    \A q \in LivePipelines :
        ENABLED (WithStep(q) /\ pipelines'[q].scissor_enabled)

====
